---- MODULE Spec2Model ----
(***************************************************************************)
(* PrintQual: aggregation-and-validation engine.                           *)
(*                                                                         *)
(* Text values (cells of the raw table and of the specification table)     *)
(* are sequences of one-character strings, so that strip / lower / split   *)
(* are computed, not assumed.  A missing cell (pandas NaN / None) is the   *)
(* value NULL.  Numbers that pandas holds as floats are records            *)
(* [k, v]: k = "num" with v the value in ten-thousandths (fixed point,     *)
(* one digit more than the 3 decimals the program rounds to), k = "nan",   *)
(* k = "inf" (a positive count divided by zero pages) or k = "none"        *)
(* (Python None).  Milli(m) is the number with 3 decimals m / 1000.        *)
(***************************************************************************)
EXTENDS Integers, Sequences, FiniteSets, TLC

\* ------------------------------------------------------------------ bounds
\* Most rows in the raw table (rows of the workbook below the header).
MaxRows == 2
\* Most rows of the category in a specification sheet.
MaxSpecRows == 2
\* Longest specification cell tried on cell_matches (besides the named ones).
MaxCellLen == 4
\* Most rows of a raw sheet scanned for its header.
MaxSheetRows == 5
\* Most columns of a table given to the column-name normalisation.
MaxColumns == 3
\* Most records of a table whose blocks of detail rows are examined.
MaxBlockRows == 3
\* Most rows of a raw file after its leading blank rows.
MaxFileTail == 3

\* ------------------------------------------------------------------- text
NULL == <<"NaN">>

\* Characters in ASCII order (str comparison is by code point).
Alphabet ==
  <<" ", ",", "1", "2", "A", "B", "C", "D", "E", "G", "I", "M", "N", "P", "R",
    "S", "T",
    "U",
    "a", "b", "c", "d", "e", "f", "g", "h", "i", "l", "n", "o", "p", "r", "s",
    "t", "u", "v">>

Ord(c) == CHOOSE i \in 1..Len(Alphabet) : Alphabet[i] = c

\* str.lower() on one character
LowerChar(c) ==
  CASE c = "A" -> "a" [] c = "B" -> "b" [] c = "C" -> "c" [] c = "D" -> "d"
    [] c = "E" -> "e" [] c = "G" -> "g" [] c = "I" -> "i" [] c = "M" -> "m"
    [] c = "N" -> "n" [] c = "R" -> "r"
    [] c = "P" -> "p"
    [] c = "S" -> "s" [] c = "T" -> "t" [] c = "U" -> "u" [] OTHER -> c

\* str.lower()
Lower(s) == [i \in 1..Len(s) |-> LowerChar(s[i])]

\* str.strip(): drop leading and trailing blanks
RECURSIVE LStrip(_)
LStrip(s) == IF s # <<>> /\ Head(s) = " " THEN LStrip(Tail(s)) ELSE s

RECURSIVE RStrip(_)
RStrip(s) ==
  IF s # <<>> /\ s[Len(s)] = " " THEN RStrip(SubSeq(s, 1, Len(s) - 1)) ELSE s

Strip(s) == RStrip(LStrip(s))

\* str.split(","): the pieces between commas, in order (always >= 1 piece)
RECURSIVE Split(_)
Split(s) ==
  IF \E i \in 1..Len(s) : s[i] = ","
    THEN LET i == CHOOSE j \in 1..Len(s) :
                    s[j] = "," /\ \A k \in 1..(j - 1) : s[k] # ","
         IN <<SubSeq(s, 1, i - 1)>> \o Split(SubSeq(s, i + 1, Len(s)))
    ELSE <<s>>

\* a < b for two strings (lexicographic by code point)
RECURSIVE StrLess(_, _)
StrLess(a, b) ==
  IF b = <<>> THEN FALSE
  ELSE IF a = <<>> THEN TRUE
  ELSE IF Head(a) = Head(b) THEN StrLess(Tail(a), Tail(b))
  ELSE Ord(Head(a)) < Ord(Head(b))

\* Order of group keys in groupby(sort=True, dropna=False): NaN keys last.
ValueLess(a, b) ==
  IF a = NULL THEN FALSE
  ELSE IF b = NULL THEN TRUE
  ELSE StrLess(a, b)

\* ---------------------------------------------------------------- numbers
Num(v) == [k |-> "num", v |-> v]
Milli(m) == Num(10 * m)
NaN == [k |-> "nan", v |-> 0]
PosInf == [k |-> "inf", v |-> 0]
None == [k |-> "none", v |-> 0]

\* pd.isna on a number cell
IsNa(x) == x.k \in {"nan", "none"}

\* numpy round-half-to-even of the rational n / d  (n >= 0, d > 0)
RoundHalfEven(n, d) ==
  LET q == n \div d
      r == n % d
  IN IF 2 * r < d THEN q
     ELSE IF 2 * r > d THEN q + 1
     ELSE IF q % 2 = 0 THEN q ELSE q + 1

\* round(x, 3) / Series.round(3)
Round3(x) == IF x.k = "num" THEN Milli(RoundHalfEven(x.v, 10)) ELSE x

\* a <= b on floats: every comparison with NaN is False
Leq(a, b) ==
  CASE a.k = "nan" \/ b.k = "nan" -> FALSE
    [] b.k = "inf" -> TRUE
    [] a.k = "inf" -> FALSE
    [] OTHER -> a.v <= b.v

\* a < b on floats
Less(a, b) ==
  CASE a.k = "nan" \/ b.k = "nan" -> FALSE
    [] a.k = "inf" -> FALSE
    [] b.k = "inf" -> TRUE
    [] OTHER -> a.v < b.v

\* ---------------------------------------------------------- SpecValidator
\* A validator is [product, sub_assembly, spec_columns, spec_df]: spec_df is
\* the sequence of specification rows of the category (never empty once
\* load_specs returned), each a function from spec_columns and
\* "Spec (per K)" to a cell.

\* SpecValidator.extract_test_context: the attributes taken from the row
ContextMapping ==
  <<"Test Condition", "Input Tray", "Print Mode", "Media Type", "Media Cat",
    "Print Quality">>

Range(s) == {s[i] : i \in 1..Len(s)}

extract_test_context(v, pivot_row) ==
  LET fromRow == {c \in Range(ContextMapping) :
                    c \in DOMAIN pivot_row /\ pivot_row[c] # NULL}
      own == (IF v.product # NULL /\ v.product # <<>> THEN {"Product"} ELSE {})
             \cup (IF v.sub_assembly # NULL /\ v.sub_assembly # <<>>
                     THEN {"Sub Assembly"} ELSE {})
  IN [c \in own \cup fromRow |->
        CASE c = "Product" -> v.product
          [] c = "Sub Assembly" -> v.sub_assembly
          [] OTHER -> Lower(Strip(pivot_row[c]))]

\* cell_matches without the trimming of the comma-separated options
cell_matches_NoTrim(spec_cell, pivot_value) ==
  IF spec_cell = NULL THEN TRUE
  ELSE LET cell == Lower(Strip(spec_cell))
       IN IF cell = <<>> THEN TRUE
          ELSE LET options == Split(cell)
               IN \E i \in 1..Len(options) : options[i] = pivot_value

\* SpecValidator.cell_matches
cell_matches(spec_cell, pivot_value) ==
  IF spec_cell = NULL THEN TRUE
  ELSE LET cell == Lower(Strip(spec_cell))
       IN IF cell = <<>> THEN TRUE
          ELSE LET options == Split(cell)
               IN \E i \in 1..Len(options) : Strip(options[i]) = pivot_value

\* SpecValidator.find_best_spec_row: the attribute order of the elimination
PriorityOrder ==
  <<"Product", "Sub Assembly", "Test Condition", "Input Tray", "Print Mode",
    "Media Type", "Media Cat", "Print Quality">>

\* one pass of the loop body for attribute i on the candidates df
MatchedRows(df, col, context) ==
  SelectSeq(df, LAMBDA r : cell_matches(r[col], context[col]))

\* the loop with every filter applied, matches or not
RECURSIVE Eliminate_AlwaysFilter(_, _, _, _)
Eliminate_AlwaysFilter(df, spec_columns, context, i) ==
  IF i > Len(PriorityOrder) THEN df
  ELSE LET col == PriorityOrder[i]
       IN IF col \notin spec_columns \/ col \notin DOMAIN context
            THEN Eliminate_AlwaysFilter(df, spec_columns, context, i + 1)
            ELSE LET matched_rows == MatchedRows(df, col, context)
                 IN IF Len(matched_rows) = 1 THEN matched_rows
                    ELSE Eliminate_AlwaysFilter(matched_rows, spec_columns, context, i + 1)

RECURSIVE Eliminate(_, _, _, _)
Eliminate(df, spec_columns, context, i) ==
  IF i > Len(PriorityOrder) THEN df
  ELSE LET col == PriorityOrder[i]
       IN IF col \notin spec_columns \/ col \notin DOMAIN context
            THEN Eliminate(df, spec_columns, context, i + 1)
            ELSE LET matched_rows == MatchedRows(df, col, context)
                     next == IF matched_rows # <<>> THEN matched_rows ELSE df
                 IN IF Len(next) = 1 THEN next
                    ELSE Eliminate(next, spec_columns, context, i + 1)

\* the candidates left when the loop ends
Candidates(v, context) == Eliminate(v.spec_df, v.spec_columns, context, 1)

\* None, or the first remaining row
find_best_spec_row(v, context) ==
  LET df == Candidates(v, context)
  IN IF df = <<>> THEN None ELSE df[1]

\* evaluate with a strict comparison against the limit
evaluate_StrictLess(v, pivot_row, total_per_k_col) ==
  LET context == extract_test_context(v, pivot_row)
      spec_row == find_best_spec_row(v, context)
      actual_per_k == IF total_per_k_col \in DOMAIN pivot_row
                        THEN pivot_row[total_per_k_col] ELSE None
  IN IF spec_row = None THEN <<None, actual_per_k, "SPEC NOT FOUND">>
     ELSE LET spec_limit == spec_row["Spec (per K)"]
          IN IF IsNa(actual_per_k) THEN <<spec_limit, None, "NO DATA">>
             ELSE <<spec_limit, Round3(actual_per_k),
                    IF Less(actual_per_k, spec_limit) THEN "PASS" ELSE "FAIL">>

\* evaluate without the test for a missing rate: the NaN rate is compared
evaluate_NoDataCompared(v, pivot_row, total_per_k_col) ==
  LET context == extract_test_context(v, pivot_row)
      spec_row == find_best_spec_row(v, context)
      actual_per_k == IF total_per_k_col \in DOMAIN pivot_row
                        THEN pivot_row[total_per_k_col] ELSE None
  IN IF spec_row = None THEN <<None, actual_per_k, "SPEC NOT FOUND">>
     ELSE LET spec_limit == spec_row["Spec (per K)"]
          IN <<spec_limit, Round3(actual_per_k),
               IF actual_per_k.k # "none" /\ Leq(actual_per_k, spec_limit)
                 THEN "PASS" ELSE "FAIL">>

\* SpecValidator.evaluate: <<spec limit, actual rate, outcome>>
evaluate(v, pivot_row, total_per_k_col) ==
  LET context == extract_test_context(v, pivot_row)
      spec_row == find_best_spec_row(v, context)
      actual_per_k == IF total_per_k_col \in DOMAIN pivot_row
                        THEN pivot_row[total_per_k_col] ELSE None
  IN IF spec_row = None THEN <<None, actual_per_k, "SPEC NOT FOUND">>
     ELSE LET spec_limit == spec_row["Spec (per K)"]
          IN IF IsNa(actual_per_k) THEN <<spec_limit, None, "NO DATA">>
             ELSE <<spec_limit, Round3(actual_per_k),
                    IF Leq(actual_per_k, spec_limit) THEN "PASS" ELSE "FAIL">>

\* ------------------------------------------------------ TestCategoryConfig
\* INTERVENTION_CONFIG, with the metrics whose source columns were resolved
error_output_columns == <<"NP", "MP">>
total_column_name == "Sum of Total Intervention"
additional_groupby_cols == <<>>

PerK(col) ==
  CASE col = "NP" -> "NP/K" [] col = "MP" -> "MP/K"

\* the columns of a table whose name ends in "/K"
EndsWithPerK(col) == \E m \in Range(error_output_columns) : col = PerK(m)

\* ------------------------------------------------------------ data frames
\* A table is [error, columns, rows]; a row is a function from the column
\* names to cells.  Raised stands for the call ending in an exception.
Frame(cols, rows) == [error |-> FALSE, columns |-> cols, rows |-> rows]
Raised == [error |-> TRUE, columns |-> <<>>, rows |-> <<>>]

RECURSIVE SumSeq(_)
SumSeq(s) == IF s = <<>> THEN 0 ELSE Head(s) + SumSeq(Tail(s))

\* Series.sum() of a float column (skipna): NaN cells are left out
SumSkipNa(s) ==
  LET kept == SelectSeq(s, LAMBDA x : ~IsNa(x))
  IN IF \E i \in 1..Len(kept) : kept[i].k = "inf" THEN PosInf
     ELSE Num(SumSeq([i \in 1..Len(kept) |-> kept[i].v]))

\* (count / pages) * 1000, rounded to 3 decimals
Rate(count, pages) ==
  IF pages = 0 THEN (IF count = 0 THEN NaN ELSE PosInf)
  ELSE Milli(RoundHalfEven(count * 1000 * 1000, pages))

\* ------------------------------------------------------------- grouping
BaseDimensions ==
  <<"Test Condition", "Test mode", "Media Cat", "Input_Tray", "Media Type",
    "Print Mode">>

Present(cols, columns) == SelectSeq(cols, LAMBDA c : c \in columns)

\* groupby_cols of create_pivot_by_media_name
GroupbyColsMedia(columns) ==
  Present(BaseDimensions, columns) \o Present(additional_groupby_cols, columns)
    \o (IF "Media Name" \in columns THEN <<"Media Name">> ELSE <<>>)

\* groupby_cols of create_pivot_by_unit
GroupbyColsUnit(columns) ==
  Present(BaseDimensions, columns) \o Present(additional_groupby_cols, columns)
    \o <<"Unit">>

KeyOf(r, cols) == [c \in Range(cols) |-> r[c]]

\* lexicographic order of two keys over the grouping columns
KeyLess(a, b, cols) ==
  \E i \in 1..Len(cols) :
    /\ \A j \in 1..(i - 1) : a[cols[j]] = b[cols[j]]
    /\ ValueLess(a[cols[i]], b[cols[i]])

RECURSIVE SortKeys(_, _)
SortKeys(keys, cols) ==
  IF keys = {} THEN <<>>
  ELSE LET m == CHOOSE x \in keys : \A y \in keys \ {x} : KeyLess(x, y, cols)
       IN <<m>> \o SortKeys(keys \ {m}, cols)

\* groupby(groupby_cols, dropna=False).agg(sum): the sum of a numeric column
\* over the records of one group
GroupSum(data, cols, key, col) ==
  LET members == SelectSeq(data, LAMBDA r : KeyOf(r, cols) = key)
  IN SumSeq([i \in 1..Len(members) |-> members[i][col]])

\* final_cols of both views
FinalCols(groupby_cols, validator) ==
  groupby_cols \o <<"Tpages">>
    \o [i \in 1..Len(error_output_columns) |-> PerK(error_output_columns[i])]
    \o <<total_column_name>>
    \o (IF validator # None THEN <<"Spec Limit">> ELSE <<>>)
    \o <<"Result">>

\* RatedRow with the total rate recomputed from the summed counts instead of
\* summed from the rounded per-metric rates
RatedRow_TotalFromCounts(data, cols, key) ==
  LET pages == GroupSum(data, cols, key, "Tpages")
      rate == [m \in Range(error_output_columns) |->
                 Rate(GroupSum(data, cols, key, m), pages)]
      total == Rate(SumSeq([i \in 1..Len(error_output_columns) |->
                              GroupSum(data, cols, key, error_output_columns[i])]),
                    pages)
  IN [c \in Range(cols) \cup {"Tpages", total_column_name}
              \cup {PerK(m) : m \in Range(error_output_columns)} |->
        CASE c \in Range(cols) -> key[c]
          [] c = "Tpages" -> pages
          [] c = total_column_name -> total
          [] OTHER -> rate[CHOOSE m \in Range(error_output_columns) : PerK(m) = c]]

\* the aggregated row of one group, rates and total computed, not yet judged
RatedRow(data, cols, key) ==
  LET pages == GroupSum(data, cols, key, "Tpages")
      rate == [m \in Range(error_output_columns) |->
                 Rate(GroupSum(data, cols, key, m), pages)]
      total == Round3(SumSkipNa([i \in 1..Len(error_output_columns) |->
                                   rate[error_output_columns[i]]]))
  IN [c \in Range(cols) \cup {"Tpages", total_column_name}
              \cup {PerK(m) : m \in Range(error_output_columns)} |->
        CASE c \in Range(cols) -> key[c]
          [] c = "Tpages" -> pages
          [] c = total_column_name -> total
          [] OTHER -> rate[CHOOSE m \in Range(error_output_columns) : PerK(m) = c]]

\* Judged with the no-spec-file rows marked as if matching had failed
Judged_SpecNotFound(row, validator) ==
  IF validator # None
    THEN LET e == evaluate(validator, row, total_column_name)
         IN [c \in DOMAIN row \cup {"Spec Limit", "Result"} |->
               CASE c = "Spec Limit" -> e[1]
                 [] c = "Result" -> e[3]
                 [] OTHER -> row[c]]
    ELSE [c \in DOMAIN row \cup {"Result"} |->
            IF c = "Result" THEN "SPEC NOT FOUND" ELSE row[c]]

\* the Spec Limit and Result cells of a row (spec file, or none)
Judged(row, validator) ==
  IF validator # None
    THEN LET e == evaluate(validator, row, total_column_name)
         IN [c \in DOMAIN row \cup {"Spec Limit", "Result"} |->
               CASE c = "Spec Limit" -> e[1]
                 [] c = "Result" -> e[3]
                 [] OTHER -> row[c]]
    ELSE [c \in DOMAIN row \cup {"Result"} |->
            IF c = "Result" THEN "NO SPEC FILE" ELSE row[c]]

\* the pivot before the grand totals: one row per group, keys sorted
DetailFrame(data, cols, validator) ==
  LET keys == SortKeys({KeyOf(data[i], cols) : i \in 1..Len(data)}, cols)
  IN Frame(FinalCols(cols, validator),
           [i \in 1..Len(keys) |-> Judged(RatedRow(data, cols, keys[i]), validator)])

\* ------------------------------------------------------- add_grand_totals
GrandTotal == <<"G", "r", "a", "n", "d", " ", "T", "o", "t", "a", "l">>

all_potential_groupby ==
  <<"Test Condition", "Input_Tray", "Media Type", "Print Mode", "Print Quality",
    "Media Name", "Unit">>

\* df[col] == combo[col]: a missing value equals nothing, itself included
CellEq(a, b) == a # NULL /\ b # NULL /\ a = b

\* df[groupby_cols].drop_duplicates(): the distinct combinations in order of
\* first appearance (drop_duplicates takes two missing values as equal)
RECURSIVE DropDuplicates(_)
DropDuplicates(s) ==
  IF s = <<>> THEN <<>>
  ELSE LET init == DropDuplicates(SubSeq(s, 1, Len(s) - 1))
           last == s[Len(s)]
       IN IF \E i \in 1..Len(init) : init[i] = last THEN init
          ELSE Append(init, last)

Combinations(df, groupby_cols) ==
  DropDuplicates([i \in 1..Len(df.rows) |-> KeyOf(df.rows[i], groupby_cols)])

\* df[mask] for one combination
Subset(df, groupby_cols, combo) ==
  SelectSeq(df.rows,
            LAMBDA r : \A c \in Range(groupby_cols) : CellEq(r[c], combo[c]))

\* (subset[col] * subset['Tpages'] / 1000).sum(), kept as the exact sum of
\* rate * pages; inf * 0 and NaN * n are NaN and are left out by sum()
WeightedSum(subset, col) ==
  LET term(r) ==
        CASE r[col].k = "num" -> Num(r[col].v * r["Tpages"])
          [] r[col].k = "inf" /\ r["Tpages"] > 0 -> PosInf
          [] OTHER -> NaN
  IN SumSkipNa([i \in 1..Len(subset) |-> term(subset[i])])

\* WeightedRate as the plain mean of the sibling rates
WeightedRate_SimpleAverage(subset, col) ==
  LET total_tpages == SumSeq([i \in 1..Len(subset) |-> subset[i]["Tpages"]])
      rates == SelectSeq([i \in 1..Len(subset) |-> subset[i][col]],
                         LAMBDA x : x.k = "num")
  IN IF total_tpages > 0 /\ rates # <<>>
       THEN Milli(RoundHalfEven(SumSeq([i \in 1..Len(rates) |-> rates[i].v]),
                                10 * Len(rates)))
       ELSE Milli(0)

\* WeightedRate without the guard on a zero page total: 0 / 0
WeightedRate_NoZeroGuard(subset, col) ==
  LET total_tpages == SumSeq([i \in 1..Len(subset) |-> subset[i]["Tpages"]])
      weighted_sum == WeightedSum(subset, col)
  IN IF total_tpages > 0
       THEN (IF weighted_sum.k = "inf" THEN PosInf
             ELSE Milli(RoundHalfEven(weighted_sum.v, 10 * total_tpages)))
       ELSE NaN

\* the rate cell of a grand-total row for one rate column
WeightedRate(subset, col) ==
  LET total_tpages == SumSeq([i \in 1..Len(subset) |-> subset[i]["Tpages"]])
      weighted_sum == WeightedSum(subset, col)
  IN IF total_tpages > 0
       THEN (IF weighted_sum.k = "inf" THEN PosInf
             ELSE Milli(RoundHalfEven(weighted_sum.v, 10 * total_tpages)))
       ELSE Milli(0)

\* the grand-total row with the verdict of the first row it totals
GrandTotalRow_SiblingResult(df, groupby_cols, grand_total_col, combo, subset, validator) ==
  LET per_k_cols == {c \in Range(df.columns) :
                       EndsWithPerK(c) /\ c # total_column_name}
      rated == [c \in Range(df.columns) |->
                  CASE c \in Range(groupby_cols) -> combo[c]
                    [] c = grand_total_col -> GrandTotal
                    [] c = "Tpages" ->
                         SumSeq([i \in 1..Len(subset) |-> subset[i]["Tpages"]])
                    [] c \in per_k_cols \cup {total_column_name} ->
                         WeightedRate(subset, c)
                    [] OTHER -> NULL]
  IN IF validator # None
       THEN [rated EXCEPT !["Spec Limit"] = subset[1]["Spec Limit"],
                          !["Result"] = subset[1]["Result"]]
       ELSE [rated EXCEPT !["Result"] = "NO SPEC FILE"]

\* the grand-total row of one combination
GrandTotalRow(df, groupby_cols, grand_total_col, combo, subset, validator) ==
  LET per_k_cols == {c \in Range(df.columns) :
                       EndsWithPerK(c) /\ c # total_column_name}
      rated == [c \in Range(df.columns) |->
                  CASE c \in Range(groupby_cols) -> combo[c]
                    [] c = grand_total_col -> GrandTotal
                    [] c = "Tpages" ->
                         SumSeq([i \in 1..Len(subset) |-> subset[i]["Tpages"]])
                    [] c \in per_k_cols \cup {total_column_name} ->
                         WeightedRate(subset, c)
                    [] OTHER -> NULL]
  IN IF validator # None
       THEN LET e == evaluate(validator, rated, total_column_name)
            IN [rated EXCEPT !["Spec Limit"] = e[1], !["Result"] = e[3]]
       ELSE [rated EXCEPT !["Result"] = "NO SPEC FILE"]

\* result_rows with the grand-total rows put after all the detail rows
RECURSIVE ResultRows_TotalsLast(_, _, _, _, _)
ResultRows_TotalsLast(df, groupby_cols, grand_total_col, combos, validator) ==
  IF combos = <<>> THEN <<>>
  ELSE LET combo == Head(combos)
           subset == Subset(df, groupby_cols, combo)
           rest == ResultRows_TotalsLast(df, groupby_cols, grand_total_col,
                                         Tail(combos), validator)
       IN IF Len(subset) = 0 THEN rest
          ELSE IF Len(subset) <= 1 THEN subset \o rest
          ELSE subset \o rest
                 \o <<GrandTotalRow(df, groupby_cols, grand_total_col, combo,
                                    subset, validator)>>

\* result_rows after the loop over the combinations
RECURSIVE ResultRows(_, _, _, _, _)
ResultRows(df, groupby_cols, grand_total_col, combos, validator) ==
  IF combos = <<>> THEN <<>>
  ELSE LET combo == Head(combos)
           subset == Subset(df, groupby_cols, combo)
           rest == ResultRows(df, groupby_cols, grand_total_col, Tail(combos),
                              validator)
       IN IF Len(subset) = 0 THEN rest
          ELSE IF Len(subset) <= 1 THEN subset \o rest
          ELSE subset
                 \o <<GrandTotalRow(df, groupby_cols, grand_total_col, combo,
                                    subset, validator)>>
                 \o rest

\* With no grouping column left (groupby_cols = []) a table with rows makes
\* the call raise: the mask stays the scalar True and df[True] is a KeyError.
add_grand_totals(df, groupby_cols, validator) ==
  LET candidates == {i \in 1..Len(all_potential_groupby) :
                       /\ all_potential_groupby[i] \in Range(df.columns)
                       /\ all_potential_groupby[i] \notin Range(groupby_cols)}
  IN IF candidates = {} THEN df
     ELSE IF groupby_cols = <<>>
       THEN (IF df.rows = <<>> THEN df ELSE Raised)
     ELSE LET first == CHOOSE i \in candidates : \A j \in candidates : i <= j
              result_rows ==
                ResultRows(df, groupby_cols, all_potential_groupby[first],
                           Combinations(df, groupby_cols), validator)
          IN IF result_rows = <<>> THEN df
             ELSE Frame(df.columns, result_rows)

\* ------------------------------------------------------------ the two views
\* UnifiedPivotGenerator.create_pivot_by_media_name (groupby raises on an
\* empty list of keys)
create_pivot_by_media_name(data, columns, validator) ==
  LET groupby_cols == GroupbyColsMedia(columns)
      has_media_name == "Media Name" \in columns
  IN IF groupby_cols = <<>> THEN Raised
     ELSE LET pivot_df == DetailFrame(data, groupby_cols, validator)
          IN IF has_media_name /\ Len(groupby_cols) > 1
               THEN add_grand_totals(pivot_df,
                                     SubSeq(groupby_cols, 1, Len(groupby_cols) - 1),
                                     validator)
               ELSE pivot_df

\* UnifiedPivotGenerator.create_pivot_by_unit (groupby raises a KeyError when
\* the table has no Unit column)
create_pivot_by_unit(data, columns, validator) ==
  LET groupby_cols == GroupbyColsUnit(columns)
  IN IF "Unit" \notin columns THEN Raised
     ELSE add_grand_totals(DetailFrame(data, groupby_cols, validator),
                           SubSeq(groupby_cols, 1, Len(groupby_cols) - 1),
                           validator)

\* ------------------------------------------- threshold mode (no spec file)
\* The generator of src/pivot_generator.py: same aggregation, the outcome from
\* the category's default thresholds.
Brochure == <<"B", "r", "o", "c", "h", "u", "r", "e">>
Card == <<"C", "a", "r", "d">>
Envelope == <<"E", "n", "v", "e", "l", "o", "p", "e">>
Plain == <<"P", "l", "a", "i", "n">>
Photo == <<"P", "h", "o", "t", "o">>

\* INTERVENTION_CONFIG.threshold_specs: media type -> limit; a limit is a
\* number or [k |-> "dict", v |-> <<print mode, limit>> pairs]
threshold_specs ==
  << <<Plain, Milli(580)>>, <<Brochure, Milli(5000)>>, <<Photo, Milli(5000)>>,
     <<Card, Milli(5000)>>, <<Envelope, Milli(10000)>> >>

\* dict.get with the first entry returned for a missing key
DictGet_FirstEntry(pairs, key) ==
  IF \E i \in 1..Len(pairs) : pairs[i][1] = key
    THEN pairs[CHOOSE i \in 1..Len(pairs) : pairs[i][1] = key][2]
    ELSE pairs[1][2]

\* dict.get(key, 5) on a sequence of <<key, value>> pairs
DictGet(pairs, key) ==
  IF \E i \in 1..Len(pairs) : pairs[i][1] = key
    THEN pairs[CHOOSE i \in 1..Len(pairs) : pairs[i][1] = key][2]
    ELSE Milli(5000)

\* TestCategoryConfig.get_spec_for_media_type of a configuration with the
\* given threshold_specs (print_mode NULL: not given)
spec_for_media_type(config_threshold_specs, media_type, print_mode) ==
  LET spec == DictGet(config_threshold_specs, media_type)
  IN IF spec.k = "dict"
       THEN (IF print_mode = NULL THEN Milli(5000) ELSE DictGet(spec.v, print_mode))
       ELSE spec

\* the same for INTERVENTION_CONFIG
get_spec_for_media_type(media_type, print_mode) ==
  spec_for_media_type(threshold_specs, media_type, print_mode)

\* SOFT_ERROR_CONFIG.threshold_specs and SKEW_CONFIG.threshold_specs
Simplex == <<"S", "i", "m", "p", "l", "e", "x">>
Duplex == <<"D", "u", "p", "l", "e", "x">>

PerPrintMode ==
  [k |-> "dict", v |-> << <<Simplex, Milli(5000)>>, <<Duplex, Milli(10000)>> >>]

soft_error_threshold_specs ==
  << <<Plain, PerPrintMode>>, <<Brochure, PerPrintMode>>, <<Photo, Milli(5000)>>,
     <<Card, Milli(5000)>>, <<Envelope, Milli(5000)>> >>

skew_threshold_specs ==
  << <<Plain, Milli(5000)>>, <<Brochure, Milli(5000)>>, <<Photo, Milli(5000)>>,
     <<Card, Milli(5000)>>, <<Envelope, Milli(5000)>> >>

ThresholdSpecsOf(config) ==
  CASE config = "Intervention" -> threshold_specs
    [] config = "Soft Error" -> soft_error_threshold_specs
    [] config = "Skew" -> skew_threshold_specs

\* media types and print modes asked for: listed ones, unlisted ones, none
LookupMediaTypes ==
  {Plain, Brochure, Photo, Card, Envelope, <<"F", "i", "l", "m">>, NULL}

LookupPrintModes ==
  {NULL, Simplex, Duplex, Lower(Simplex), Duplex \o <<" ">>,
   <<"D", "r", "a", "f", "t">>, <<>>}

\* row.get('Print Mode')
PrintModeOf(row) == IF "Print Mode" \in DOMAIN row THEN row["Print Mode"] ELSE NULL

\* groupby_cols of the threshold-mode views, without the terminal column
legacy_BaseCols(columns) ==
  <<"Test Condition">> \o Present(<<"Input_Tray">>, columns) \o <<"Media Type">>
    \o Present(<<"Print Mode">>, columns)
    \o Present(additional_groupby_cols, columns)

\* the Result cell of the threshold mode
legacy_Result(row) ==
  IF Less(row[total_column_name],
          get_spec_for_media_type(row["Media Type"], PrintModeOf(row)))
    THEN "Pass" ELSE "Fail"

legacy_Judged(row) ==
  [c \in DOMAIN row \cup {"Result"} |->
     IF c = "Result" THEN legacy_Result(row) ELSE row[c]]

legacy_DetailFrame(data, cols) ==
  LET keys == SortKeys({KeyOf(data[i], cols) : i \in 1..Len(data)}, cols)
  IN Frame(FinalCols(cols, None),
           [i \in 1..Len(keys) |-> legacy_Judged(RatedRow(data, cols, keys[i]))])

legacy_GrandTotalRow(df, groupby_cols, grand_total_col, combo, subset) ==
  LET per_k_cols == {c \in Range(df.columns) :
                       EndsWithPerK(c) /\ c # total_column_name}
      rated == [c \in Range(df.columns) |->
                  CASE c \in Range(groupby_cols) -> combo[c]
                    [] c = grand_total_col -> GrandTotal
                    [] c = "Tpages" ->
                         SumSeq([i \in 1..Len(subset) |-> subset[i]["Tpages"]])
                    [] c \in per_k_cols \cup {total_column_name} ->
                         WeightedRate(subset, c)
                    [] OTHER -> NULL]
      spec == get_spec_for_media_type(combo["Media Type"], PrintModeOf(combo))
  IN [rated EXCEPT !["Result"] =
        IF Less(rated[total_column_name], spec) THEN "Pass" ELSE "Fail"]

RECURSIVE legacy_ResultRows(_, _, _, _)
legacy_ResultRows(df, groupby_cols, grand_total_col, combos) ==
  IF combos = <<>> THEN <<>>
  ELSE LET combo == Head(combos)
           subset == Subset(df, groupby_cols, combo)
           rest == legacy_ResultRows(df, groupby_cols, grand_total_col, Tail(combos))
       IN IF Len(subset) = 0 THEN rest
          ELSE IF Len(subset) <= 1 THEN subset \o rest
          ELSE subset
                 \o <<legacy_GrandTotalRow(df, groupby_cols, grand_total_col,
                                           combo, subset)>>
                 \o rest

\* UnifiedPivotGenerator._add_grand_totals (groupby_cols always holds
\* Test Condition and Media Type)
legacy_add_grand_totals(df, groupby_cols) ==
  LET candidates == {i \in 1..Len(all_potential_groupby) :
                       /\ all_potential_groupby[i] \in Range(df.columns)
                       /\ all_potential_groupby[i] \notin Range(groupby_cols)}
  IN IF candidates = {} THEN df
     ELSE LET first == CHOOSE i \in candidates : \A j \in candidates : i <= j
              result_rows ==
                legacy_ResultRows(df, groupby_cols, all_potential_groupby[first],
                                  Combinations(df, groupby_cols))
          IN IF result_rows = <<>> THEN df
             ELSE Frame(df.columns, result_rows)

\* create_pivot_by_media_name of the threshold mode (a KeyError without the
\* Test Condition or Media Type column)
legacy_create_pivot_by_media_name(data, columns) ==
  LET base == legacy_BaseCols(columns)
      has_media_name == "Media Name" \in columns
      groupby_cols == base \o (IF has_media_name THEN <<"Media Name">> ELSE <<>>)
  IN IF ~({"Test Condition", "Media Type"} \subseteq columns) THEN Raised
     ELSE IF has_media_name /\ Len(groupby_cols) > 1
       THEN legacy_add_grand_totals(legacy_DetailFrame(data, groupby_cols), base)
       ELSE legacy_DetailFrame(data, groupby_cols)

\* create_pivot_by_unit of the threshold mode
legacy_create_pivot_by_unit(data, columns) ==
  LET base == legacy_BaseCols(columns)
  IN IF ~({"Test Condition", "Media Type", "Unit"} \subseteq columns) THEN Raised
     ELSE legacy_add_grand_totals(legacy_DetailFrame(data, base \o <<"Unit">>), base)

\* ------------------------------------------------------------------ inputs
\* the values a dimension column takes in the raw tables, in sorted order
DimValues(c) ==
  CASE c = "Test Condition" -> <<<<"N">>>>
    [] c = "Media Type" -> <<Photo, Plain, NULL>>
    [] c = "Media Name" -> <<<<"A">>, <<"B">>>>
    [] c = "Unit" -> <<<<"U", "1">>, <<"U", "2">>>>
    [] c \in {"Input_Tray", "Tray", "Input Tray"} -> <<<<"1">>, <<"2">>>>

\* page count and defect counts of one test run
Measurements ==
  << [Tpages |-> 1000, NP |-> 2, MP |-> 0],
     [Tpages |-> 3000, NP |-> 18, MP |-> 1],
     [Tpages |-> 1000, NP |-> 5, MP |-> 1],
     [Tpages |-> 0, NP |-> 1, MP |-> 0] >>

\* the sets of dimension columns a normalized table may carry
ColumnSets ==
  { {"Test Condition", "Media Type", "Media Name", "Unit"},
    {"Test Condition", "Media Type", "Unit"},
    {"Test Condition", "Media Type", "Media Name"},
    {"Media Name", "Unit"} }

NumericColumns == {"Tpages"} \cup Range(error_output_columns)

\* the records a table over the given dimension columns can hold
RowUniverse(cols, measurements) ==
  {[c \in cols \cup NumericColumns |->
      IF c \in cols THEN d[c] ELSE m[c]] :
     d \in {f \in [cols -> UNION {Range(DimValues(c)) : c \in cols}] :
              \A c \in cols : f[c] \in Range(DimValues(c))},
     m \in Range(measurements)}

\* groupby sorts the groups and sums within them, so the order of the records
\* does not reach the output: tables are taken with their records in one
\* fixed order.
RowCode(r, cols, measurements) ==
  LET idx(c) == CHOOSE i \in 1..Len(DimValues(c)) : DimValues(c)[i] = r[c]
      meas == CHOOSE i \in 1..Len(measurements) :
                \A c \in NumericColumns : measurements[i][c] = r[c]
      dims == SelectSeq(all_potential_groupby, LAMBDA c : c \in cols)
      code[n \in 0..Len(dims)] ==
        IF n = 0 THEN 0 ELSE code[n - 1] * 4 + idx(dims[n])
  IN code[Len(dims)] * (Len(measurements) + 1) + meas

RECURSIVE Tables(_, _, _)
Tables(cols, measurements, n) ==
  IF n = 0 THEN {<<>>}
  ELSE LET shorter == Tables(cols, measurements, n - 1)
       IN shorter \cup
          {Append(t, r) : t \in {u \in shorter : Len(u) = n - 1},
                          r \in RowUniverse(cols, measurements)}

OrderedTables(cols, measurements) ==
  {t \in Tables(cols, measurements, MaxRows) :
     \A i \in 1..(Len(t) - 1) :
       RowCode(t[i], cols, measurements) <= RowCode(t[i + 1], cols, measurements)}

\* a validator as built from a specification sheet holding two rows of the
\* category: a limit for Plain and a wildcard row
SpecFileValidator ==
  [product |-> <<"h", "i">>,
   sub_assembly |-> <<"a", "d", "f">>,
   spec_columns |-> {"Media Type"},
   spec_df |-> << [c \in {"Media Type", "Spec (per K)"} |->
                     IF c = "Media Type" THEN Plain ELSE Milli(580)],
                  [c \in {"Media Type", "Spec (per K)"} |->
                     IF c = "Media Type" THEN NULL ELSE Milli(5000)] >>]

\* page count and defect counts of the runs given to the threshold mode
ThresholdMeasurements ==
  << [Tpages |-> 1000, NP |-> 1, MP |-> 0],
     [Tpages |-> 1000, NP |-> 3, MP |-> 0],
     [Tpages |-> 500, NP |-> 0, MP |-> 0],
     [Tpages |-> 500, NP |-> 2, MP |-> 0],
     [Tpages |-> 1000, NP |-> 5, MP |-> 0] >>

\* the threshold mode needs the Test Condition and Media Type columns
ThresholdColumnSets == {c \in ColumnSets : {"Test Condition", "Media Type"} \subseteq c}

\* cells of the specification sheets given to the matcher
SpecCellsOf(c) ==
  CASE c = "Media Type" ->
         {NULL, Plain, <<"p", "l", "a", "i", "n", ",", " ", "p", "h", "o", "t", "o">>}
    [] c = "Print Mode" -> {NULL, <<"d">>}
    [] c = "Spec (per K)" -> {Milli(580), Milli(5000)}

SpecSheetColumns == {"Media Type", "Print Mode"}

SpecRows ==
  {[c \in SpecSheetColumns \cup {"Spec (per K)"} |->
      CASE c = "Media Type" -> mt [] c = "Print Mode" -> pm [] OTHER -> limit] :
     mt \in SpecCellsOf("Media Type"), pm \in SpecCellsOf("Print Mode"),
     limit \in SpecCellsOf("Spec (per K)")}

RECURSIVE SpecSheets(_)
SpecSheets(n) ==
  IF n = 0 THEN {<<>>}
  ELSE LET shorter == SpecSheets(n - 1)
       IN shorter \cup {Append(t, r) : t \in {u \in shorter : Len(u) = n - 1},
                                        r \in SpecRows}

\* the validators load_specs can build: at least one row of the category
MatcherValidators ==
  {[product |-> <<"h", "i">>, sub_assembly |-> <<"a", "d", "f">>,
    spec_columns |-> SpecSheetColumns, spec_df |-> df] :
     df \in SpecSheets(MaxSpecRows) \ {<<>>}}

\* total rates handed to evaluate, in ten-thousandths
RateInputs ==
  {Num(5800), Num(5804), Num(5805), Num(5815), Num(50000), Num(50006), NaN, PosInf}

\* aggregated rows handed to evaluate
MatcherRows ==
  {[c \in {"Media Type", "Print Mode", total_column_name} |->
      CASE c = "Media Type" -> mt [] c = "Print Mode" -> pm [] OTHER -> rate] :
     mt \in {Plain, Photo, NULL}, pm \in {<<"D">>, <<"S">>}, rate \in RateInputs}

\* aggregated rows without the total-rate column
BareRows == {[c \in {"Media Type"} |-> mt] : mt \in {Plain, Photo}}

\* specification cells and context values handed to cell_matches
CellChars == {"a", "B", " ", ","}
ValueChars == {"a", "b", "B"}

RECURSIVE Strings(_, _)
Strings(chars, n) ==
  IF n = 0 THEN {<<>>}
  ELSE LET shorter == Strings(chars, n - 1)
       IN shorter \cup {Append(t, c) : t \in {u \in shorter : Len(u) = n - 1},
                                        c \in chars}

PlainBrochure ==
  <<"p", "l", "a", "i", "n", ",", " ", "b", "r", "o", "c", "h", "u", "r", "e">>

SpecCells == Strings(CellChars, MaxCellLen) \cup {NULL, PlainBrochure}
ContextValues ==
  Strings(ValueChars, 2) \cup {Lower(Plain), Lower(Brochure), Lower(Photo)}

\* ------------------------------------------------------------------- state
\* One generator, used as PivotService.generate_all_pivots uses it: built
\* from the raw table, then asked for the media view, then for the unit view.
VARIABLES
  columns,         \* dimension columns of processed_data
  processed_data,  \* the prepared raw table
  spec_validator,  \* None, or the validator built from the spec file
  view,            \* "none", then the last view asked of the generator
  media,           \* all_pivots[name]["media"]
  unit,            \* all_pivots[name]["unit"]
  call,            \* the last call of a matcher function, with its arguments
  ret,             \* what that call returned
  shell            \* the desktop shell: its widgets, its worker thread

vars == <<columns, processed_data, spec_validator, view, media, unit, call, ret,
          shell>>

NoTable == Frame(<<>>, <<>>)
Idle == [op |-> "none"]

\* the shell before Generate is clicked: no worker thread, nothing scheduled
\* with root.after, no widget touched yet
NoShell ==
  [worker |-> "none", generate_btn |-> "normal", progress |-> "stopped",
   after |-> <<>>, messagebox |-> "none", accessed |-> {}]

Init ==
  /\ shell = NoShell
  /\ columns \in ColumnSets
  /\ processed_data \in OrderedTables(columns, Measurements)
  /\ spec_validator \in {None, SpecFileValidator}
  /\ view = "none"
  /\ media = NoTable
  /\ unit = NoTable
  /\ call = Idle
  /\ ret = Idle

ByMediaName ==
  /\ view = "none"
  /\ view' = "media"
  /\ media' = create_pivot_by_media_name(processed_data, columns, spec_validator)
  /\ UNCHANGED <<shell, columns, processed_data, spec_validator, unit, call, ret>>

\* not reached when the media view raised
ByUnit ==
  /\ view = "media"
  /\ ~media.error
  /\ view' = "unit"
  /\ unit' = create_pivot_by_unit(processed_data, columns, spec_validator)
  /\ UNCHANGED <<shell, columns, processed_data, spec_validator, media, call, ret>>

Next == ByMediaName \/ ByUnit

Spec == Init /\ [][Next]_vars

\* ---- the threshold-mode generator, asked for its media view, then its unit view
InitThreshold ==
  /\ shell = NoShell
  /\ columns \in ThresholdColumnSets
  /\ processed_data \in OrderedTables(columns, ThresholdMeasurements)
  /\ spec_validator = None
  /\ view = "none"
  /\ media = NoTable
  /\ unit = NoTable
  /\ call = Idle
  /\ ret = Idle

ThresholdByMediaName ==
  /\ view = "none"
  /\ view' = "media"
  /\ media' = legacy_create_pivot_by_media_name(processed_data, columns)
  /\ UNCHANGED <<shell, columns, processed_data, spec_validator, unit, call, ret>>

ThresholdByUnit ==
  /\ view = "media"
  /\ ~media.error
  /\ view' = "unit"
  /\ unit' = legacy_create_pivot_by_unit(processed_data, columns)
  /\ UNCHANGED <<shell, columns, processed_data, spec_validator, media, call, ret>>

NextThreshold == ThresholdByMediaName \/ ThresholdByUnit

SpecThreshold == InitThreshold /\ [][NextThreshold]_vars

\* ---- TestCategoryConfig.get_spec_for_media_type on the three configurations
InitLookup ==
  /\ shell = NoShell
  /\ columns = {}
  /\ processed_data = <<>>
  /\ spec_validator = None
  /\ view = "none"
  /\ media = NoTable
  /\ unit = NoTable
  /\ call = Idle
  /\ ret = Idle

GetSpecForMediaType ==
  \E config \in {"Intervention", "Soft Error", "Skew"} :
  \E media_type \in LookupMediaTypes, print_mode \in LookupPrintModes :
    /\ call.op = "none"
    /\ call' = [op |-> "get_spec_for_media_type", config |-> config,
                media_type |-> media_type, print_mode |-> print_mode]
    /\ ret' = spec_for_media_type(ThresholdSpecsOf(config), media_type, print_mode)
    /\ UNCHANGED <<shell, columns, processed_data, spec_validator, view, media, unit>>

NextLookup == GetSpecForMediaType

SpecLookup == InitLookup /\ [][NextLookup]_vars

\* ---- SpecValidator.evaluate on the validators and rows above
InitEvaluate ==
  /\ shell = NoShell
  /\ columns = {}
  /\ processed_data = <<>>
  /\ spec_validator \in MatcherValidators
  /\ view = "none"
  /\ media = NoTable
  /\ unit = NoTable
  /\ call = Idle
  /\ ret = Idle

Evaluate ==
  \E kind \in {"rated", "bare"} :
  \E row \in IF kind = "rated" THEN MatcherRows ELSE BareRows :
    /\ call.op = "none"
    /\ call' = [op |-> "evaluate", pivot_row |-> row]
    /\ ret' = evaluate(spec_validator, row, total_column_name)
    /\ UNCHANGED <<shell, columns, processed_data, spec_validator, view, media, unit>>

NextEvaluate == Evaluate

SpecEvaluate == InitEvaluate /\ [][NextEvaluate]_vars

\* ---- SpecValidator.cell_matches on the cells and values above
InitCell ==
  /\ shell = NoShell
  /\ columns = {}
  /\ processed_data = <<>>
  /\ spec_validator = SpecFileValidator
  /\ view = "none"
  /\ media = NoTable
  /\ unit = NoTable
  /\ call = Idle
  /\ ret = Idle

CellMatches ==
  \E cell \in SpecCells, value \in ContextValues :
    /\ call.op = "none"
    /\ call' = [op |-> "cell_matches", spec_cell |-> cell, pivot_value |-> value]
    /\ ret' = cell_matches(cell, value)
    /\ UNCHANGED <<shell, columns, processed_data, spec_validator, view, media, unit>>

NextCell == CellMatches

SpecCell == InitCell /\ [][NextCell]_vars

\* ------------------------------------------------------------ construction
\* UnifiedPivotGenerator.COLUMN_ALIASES: <<standard name, accepted spellings>>
COLUMN_ALIASES ==
  << <<"Test Name", <<"Test Name", "TestName", "Test_Name", "Test name">>>>,
     <<"Program & SKU", <<"Program & SKU", "Program&SKU", "Program_SKU">>>>,
     <<"Test mode", <<"Test mode", "Test Mode">>>>,
     <<"Input Tray", <<"Input_Tray", "Tray", "Input Tray">>>>,
     <<"Media Type", <<"Media Type">>>>,
     <<"Print Mode", <<"Print Mode", "Paper Mode", "Run Type">>>>,
     <<"Media Name", <<"Media Name">>>>,
     <<"Media Cat", <<"Media Cat", "Media Category">>>>,
     <<"Test Condition", <<"Test Condition", "Test conditions">>>>,
     <<"Unit", <<"Unit", "unit", "Unit#", "Unit No">>>>,
     <<"Tpages", <<"Tpages", "Tpages Printed", "Actual Printed Sheets",
                   "Actual Run Pages", "ADF TPages">>>>,
     <<"Print Quality", <<"Print Quality", "Color/Quality">>>> >>

\* the renaming turned round: a listed column gets the first spelling
RenamedColumn_ToFirstAlias(col, column_aliases) ==
  LET hits == {i \in 1..Len(column_aliases) : col \in Range(column_aliases[i][2])}
  IN IF hits = {} THEN col
     ELSE column_aliases[CHOOSE i \in hits : \A j \in hits : i >= j][2][1]

\* rename_map of detector.standardize_column_names applied to one column:
\* the standard name of the last entry listing the column, else the column
RenamedColumn(col, column_aliases) ==
  LET hits == {i \in 1..Len(column_aliases) : col \in Range(column_aliases[i][2])}
  IN IF hits = {} THEN col
     ELSE column_aliases[CHOOSE i \in hits : \A j \in hits : i >= j][1]

\* detector.standardize_column_names on the column index of a table
standardize_column_names(df_columns, column_aliases) ==
  [i \in 1..Len(df_columns) |-> RenamedColumn(df_columns[i], column_aliases)]

\* the records of a table under the renamed columns (no two columns of the
\* tables built here share a standard name)
RenamedRows(rows, column_aliases) ==
  [i \in 1..Len(rows) |->
     [c \in {RenamedColumn(d, column_aliases) : d \in DOMAIN rows[i]} |->
        rows[i][CHOOSE d \in DOMAIN rows[i] : RenamedColumn(d, column_aliases) = c]]]

\* INTERVENTION_CONFIG.name
Intervention == <<"I", "n", "t", "e", "r", "v", "e", "n", "t", "i", "o", "n">>

\* astype(str) on a cell of text
AsStr(cell) == IF cell = NULL THEN <<"n", "a", "n">> ELSE cell

\* load_specs without the test for an empty selection
load_specs_NoEmptyCheck(sheet, spec_category) ==
  IF "Spec Category" \notin Range(sheet.columns) THEN Raised
  ELSE Frame(sheet.columns,
             SelectSeq(sheet.rows,
                       LAMBDA r : Lower(Strip(AsStr(r["Spec Category"])))
                                    = Lower(spec_category)))

\* SpecValidator.load_specs on the sheet read from the workbook: the rows of
\* the category, or the ValueError
load_specs(sheet, spec_category) ==
  IF "Spec Category" \notin Range(sheet.columns) THEN Raised
  ELSE LET df == SelectSeq(sheet.rows,
                           LAMBDA r : Lower(Strip(AsStr(r["Spec Category"])))
                                        = Lower(spec_category))
       IN IF df = <<>> THEN Raised ELSE Frame(sheet.columns, df)

\* the try/except around SpecValidator(...) in UnifiedPivotGenerator.__init__
\* (product and sub assembly as detected from the raw table)
BuiltValidator(sheet, product, sub_assembly) ==
  LET loaded == load_specs(sheet, Intervention)
  IN IF loaded.error THEN None
     ELSE [product |-> Lower(Strip(product)),
           sub_assembly |-> Lower(Strip(sub_assembly)),
           spec_columns |-> Range(loaded.columns),
           spec_df |-> loaded.rows]

\* raw tables handed to the constructor: one of the spellings of the input
\* tray column, or none
RawColumnSets ==
  {{"Test Condition", "Media Type", "Media Name", "Unit"} \cup tray :
     tray \in {{}, {"Input_Tray"}, {"Tray"}, {"Input Tray"}}}

ConstructMeasurements == << [Tpages |-> 1000, NP |-> 2, MP |-> 0] >>

RawTables(cols) ==
  {t \in OrderedTables(cols, ConstructMeasurements) :
     \A i \in 1..Len(t) : t[i]["Media Type"] = Plain /\ t[i]["Unit"] = <<"U", "1">>}

\* sheets of the specification workbook
SheetCategories ==
  {Intervention,
   <<"i", "n", "t", "e", "r", "v", "e", "n", "t", "i", "o", "n", " ">>,
   <<"S", "k", "e", "w">>}

SheetRows(cols) ==
  {[c \in Range(cols) |->
      CASE c = "Spec Category" -> cat
        [] c = "Media Type" -> Plain
        [] OTHER -> Milli(580)] : cat \in SheetCategories}

Sheets ==
  UNION {{Frame(cols, rows) :
            rows \in UNION {[1..n -> SheetRows(cols)] : n \in 0..MaxSpecRows}} :
         cols \in {<<"Spec Category", "Media Type", "Spec (per K)">>,
                   <<"Media Type", "Spec (per K)">>}}

\* ---- UnifiedPivotGenerator.__init__ with a spec file, then the two views
InitConstruct ==
  /\ shell = NoShell
  /\ columns \in RawColumnSets
  /\ processed_data \in RawTables(columns)
  /\ spec_validator = None
  /\ view = "init"
  /\ media = NoTable
  /\ unit = NoTable
  /\ call \in {[op |-> "SpecValidator", sheet |-> sheet] : sheet \in Sheets}
  /\ ret = Idle

Construct ==
  /\ view = "init"
  /\ view' = "none"
  /\ columns' = {RenamedColumn(c, COLUMN_ALIASES) : c \in columns}
  /\ processed_data' = RenamedRows(processed_data, COLUMN_ALIASES)
  /\ spec_validator' = BuiltValidator(call.sheet, <<"H", "i">>, <<"A", "D", "F">>)
  /\ ret' = [op |-> "SpecValidator",
             raised |-> load_specs(call.sheet, Intervention).error]
  /\ UNCHANGED <<shell, media, unit, call>>

NextConstruct == Construct \/ ByMediaName \/ ByUnit

SpecConstruct == InitConstruct /\ [][NextConstruct]_vars

\* ---- the normalisation of the threshold-mode generator
legacy_COLUMN_ALIASES ==
  << <<"Input_Tray", <<"Input_Tray", "Tray", "Input Tray">>>>,
     <<"Media Type", <<"Media Type">>>>,
     <<"Print Mode", <<"Print Mode", "Paper Mode", "Run Type">>>>,
     <<"Media Name", <<"Media Name">>>>,
     <<"Test Condition", <<"Test Condition", "Test conditions">>>>,
     <<"Unit", <<"Unit", "unit", "Unit#">>>>,
     <<"Tpages", <<"Tpages", "Tsheets Printed", "Tpages Printed",
                   "Actual Printed Sheets", "Actual Run Pages">>>>,
     <<"Print Quality", <<"Print Quality", "Color/Quality">>>> >>

\* the spelling renamed for one entry: the first one found among the columns
\* that is not the standard name itself ("none": no renaming)
legacy_FirstMatch(entry, df_columns) ==
  LET found == {k \in 1..Len(entry[2]) :
                  entry[2][k] \in Range(df_columns) /\ entry[2][k] # entry[1]}
  IN IF found = {} THEN "none"
     ELSE entry[2][CHOOSE k \in found : \A m \in found : k <= m]

\* UnifiedPivotGenerator._standardize_column_names on the column index
legacy_standardize_column_names(df_columns) ==
  [i \in 1..Len(df_columns) |->
     LET hits == {e \in 1..Len(legacy_COLUMN_ALIASES) :
                    legacy_FirstMatch(legacy_COLUMN_ALIASES[e], df_columns)
                      = df_columns[i]}
     IN IF hits = {} THEN df_columns[i]
        ELSE legacy_COLUMN_ALIASES[CHOOSE e \in hits : \A f \in hits : e >= f][1]]

\* column names of the tables given to the normalisation
ColumnNames ==
  {"Test Condition", "Test conditions", "Input Tray", "Input_Tray", "Tray",
   "Media Type", "Unit", "unit", "Tpages", "Tpages Printed", "NP"}

\* column indexes without repeated names
ColumnLists ==
  {cols \in UNION {[1..n -> ColumnNames] : n \in 0..MaxColumns} :
     \A i, j \in 1..Len(cols) : cols[i] = cols[j] => i = j}

\* ---- the normalisation of the column names, in either generator; a table
\* is its column index and, by position, one record
InitNormalize ==
  /\ shell = NoShell
  /\ columns = {}
  /\ processed_data = <<>>
  /\ spec_validator = None
  /\ view = "none"
  /\ media = NoTable
  /\ unit = NoTable
  /\ call = Idle
  /\ ret = Idle

Standardize ==
  \E cols \in ColumnLists :
    /\ call.op = "none"
    /\ call' = [op |-> "standardize_column_names", generator |-> "core",
                df_columns |-> cols, data |-> [j \in 1..Len(cols) |-> j]]
    /\ ret' = [df_columns |-> standardize_column_names(cols, COLUMN_ALIASES),
               data |-> [j \in 1..Len(cols) |-> j]]
    /\ UNCHANGED <<shell, columns, processed_data, spec_validator, view, media, unit>>

LegacyStandardize ==
  \E cols \in ColumnLists :
    /\ call.op = "none"
    /\ call' = [op |-> "standardize_column_names", generator |-> "threshold",
                df_columns |-> cols, data |-> [j \in 1..Len(cols) |-> j]]
    /\ ret' = [df_columns |-> legacy_standardize_column_names(cols),
               data |-> [j \in 1..Len(cols) |-> j]]
    /\ UNCHANGED <<shell, columns, processed_data, spec_validator, view, media, unit>>

NextNormalize == Standardize \/ LegacyStandardize

SpecNormalize == InitNormalize /\ [][NextNormalize]_vars

\* ---------------------------------------------------------- fuzzy matching
\* str.replace('_', ' ').replace('-', ' ')
SeparatorsToSpaces(s) ==
  [i \in 1..Len(s) |-> IF s[i] \in {"_", "-"} THEN " " ELSE s[i]]

\* a in b, for strings
IsSubstring(a, b) ==
  \E i \in 0..(Len(b) - Len(a)) : SubSeq(b, i + 1, i + Len(a)) = a

\* lower().replace('_', ' ').replace('-', ' ').strip()
Normalized(s) == Strip(SeparatorsToSpaces(Lower(s)))

\* the loop of find_fuzzy_column_match from column i on
RECURSIVE FuzzyFrom(_, _, _)
FuzzyFrom(df_columns, target_col, i) ==
  IF i > Len(df_columns) THEN [found |-> FALSE, col |-> <<>>]
  ELSE LET target_normalized == Normalized(target_col)
           col_normalized == Normalized(df_columns[i])
       IN IF target_normalized = col_normalized
            THEN [found |-> TRUE, col |-> df_columns[i]]
          ELSE IF /\ Len(target_normalized) > 5
                  /\ \/ IsSubstring(target_normalized, col_normalized)
                     \/ IsSubstring(col_normalized, target_normalized)
            THEN [found |-> TRUE, col |-> df_columns[i]]
          ELSE FuzzyFrom(df_columns, target_col, i + 1)

\* detector.find_fuzzy_column_match: the column returned, or found = FALSE
\* for None
find_fuzzy_column_match(df_columns, target_col) == FuzzyFrom(df_columns, target_col, 1)

\* configured source names and raw column names
FuzzyTargets ==
  { <<"P", "a", "p", "e", "r", " ", "S", "a", "i", "l", "i", "n", "g">>,
    <<"N", "i", "c", "k">>,
    <<"P", "a", "p", "e", "r">>,
    <<"N", "i", "c", "k", "e", "l">> }

FuzzyColumnNames ==
  { <<"p", "a", "p", "e", "r", "_", "s", "a", "i", "l", "i", "n", "g">>,
    <<"P", "a", "p", "e", "r", "-", "S", "a", "i", "l", "i", "n", "g", " ">>,
    <<"P", "a", "p", "e", "r">>,
    <<"n", "i", "c", "k">>,
    <<"N", "i", "c", "k", "e", "l">>,
    <<"S", "n", "i", "c", "k", "e", "r", "s">> }

FuzzyColumnLists ==
  {cols \in UNION {[1..n -> FuzzyColumnNames] : n \in 0..MaxColumns} :
     \A i, j \in 1..Len(cols) : cols[i] = cols[j] => i = j}

\* ---- find_fuzzy_column_match on the names above
InitFuzzy ==
  /\ shell = NoShell
  /\ columns = {}
  /\ processed_data = <<>>
  /\ spec_validator = None
  /\ view = "none"
  /\ media = NoTable
  /\ unit = NoTable
  /\ call = Idle
  /\ ret = Idle

FindFuzzyColumnMatch ==
  \E cols \in FuzzyColumnLists, target \in FuzzyTargets :
    /\ call.op = "none"
    /\ call' = [op |-> "find_fuzzy_column_match", df_columns |-> cols,
                target_col |-> target]
    /\ ret' = find_fuzzy_column_match(cols, target)
    /\ UNCHANGED <<shell, columns, processed_data, spec_validator, view, media, unit>>

NextFuzzy == FindFuzzyColumnMatch

SpecFuzzy == InitFuzzy /\ [][NextFuzzy]_vars

\* ------------------------------------------------------- header detection
key_columns ==
  << <<"t", "e", "s", "t", " ", "c", "o", "n", "d", "i", "t", "i", "o", "n">>,
     <<"m", "e", "d", "i", "a", " ", "t", "y", "p", "e">>,
     <<"u", "n", "i", "t">> >>

max_search_rows == 20

\* the number of key columns found in some cell of the row
RowScore(row) ==
  Cardinality({k \in 1..Len(key_columns) :
                 \E j \in 1..Len(row) :
                   IsSubstring(key_columns[k], Lower(Strip(AsStr(row[j]))))})

\* method 1 from row index row_idx (0-based) on, with the best match so far
RECURSIVE BestMatch(_, _, _)
BestMatch(df_test, row_idx, best_match) ==
  IF row_idx >= max_search_rows \/ row_idx >= Len(df_test) THEN best_match
  ELSE LET score == RowScore(df_test[row_idx + 1])
       IN BestMatch(df_test, row_idx + 1,
                    IF score >= 2 /\ score > best_match.score
                      THEN [row |-> row_idx, score |-> score]
                      ELSE best_match)

\* method 1 taking the first row with two key columns
RECURSIVE BestMatch_FirstScored(_, _, _)
BestMatch_FirstScored(df_test, row_idx, best_match) ==
  IF row_idx >= max_search_rows \/ row_idx >= Len(df_test) THEN best_match
  ELSE LET score == RowScore(df_test[row_idx + 1])
       IN IF score >= 2 THEN [row |-> row_idx, score |-> score]
          ELSE BestMatch_FirstScored(df_test, row_idx + 1, best_match)

\* method 2 with the 'nan' / 'none' cells counted as well
NonEmptyCells_NoNanTest(row) ==
  {j \in 1..Len(row) : Strip(AsStr(row[j])) # <<>>}

\* method 2: the cells of a row that count as non-empty
NonEmptyCells(row) ==
  {j \in 1..Len(row) :
     /\ Strip(AsStr(row[j])) # <<>>
     /\ Lower(AsStr(row[j])) \notin {<<"n", "a", "n">>, <<"n", "o", "n", "e">>}}

\* find_header_row with method 1 replaced
find_header_row_FirstScored(df_test) ==
  LET best_match == BestMatch_FirstScored(df_test, 0, [row |-> 1, score |-> 0])
  IN IF best_match.score >= 2 THEN best_match.row ELSE 1

\* auto_header_detector.find_header_row on the rows read without a header
find_header_row(df_test) ==
  LET best_match == BestMatch(df_test, 0, [row |-> 1, score |-> 0])
      scanned == {i \in 0..(Len(df_test) - 1) : i < max_search_rows}
      guessed == {i \in scanned : Cardinality(NonEmptyCells(df_test[i + 1])) >= 8}
  IN IF best_match.score >= 2 THEN best_match.row
     ELSE IF guessed # {} THEN CHOOSE i \in guessed : \A j \in guessed : i <= j
     ELSE 1

\* rows of the raw sheets: blank, two title rows, the header, a record
TestConditionName ==
  <<"T", "e", "s", "t", " ", "C", "o", "n", "d", "i", "t", "i", "o", "n">>
MediaTypeName == <<"M", "e", "d", "i", "a", " ", "T", "y", "p", "e">>
UnitName == <<"U", "n", "i", "t">>

SheetRowKinds ==
  { <<NULL, NULL, NULL>>,
    <<UnitName \o <<" ">> \o <<"R", "e", "p", "o", "r", "t">>, NULL, NULL>>,
    <<MediaTypeName \o <<" ", "b", "y", " ">> \o UnitName, NULL, NULL>>,
    <<TestConditionName, MediaTypeName, UnitName>>,
    <<<<"N">>, Plain, <<"U", "1">>>> }

RawSheets == UNION {[1..n -> SheetRowKinds] : n \in 0..MaxSheetRows}

\* ---- find_header_row on the raw sheets
InitHeader ==
  /\ shell = NoShell
  /\ columns = {}
  /\ processed_data = <<>>
  /\ spec_validator = None
  /\ view = "none"
  /\ media = NoTable
  /\ unit = NoTable
  /\ call = Idle
  /\ ret = Idle

FindHeaderRow ==
  \E sheet \in RawSheets :
    /\ call.op = "none"
    /\ call' = [op |-> "find_header_row", df_test |-> sheet]
    /\ ret' = find_header_row(sheet)
    /\ UNCHANGED <<shell, columns, processed_data, spec_validator, view, media, unit>>

NextHeader == FindHeaderRow

SpecHeader == InitHeader /\ [][NextHeader]_vars

\* ---- find_header_row on files of eight columns, some longer than the rows
\* read_excel is asked for
\* a row of eight cells: the given cells, then empty cells
Padded(cells) == cells \o [j \in 1..(8 - Len(cells)) |-> NULL]

\* rows of the files: blank, a title, two key names, the full header, a
\* record of eight values, a record with the text 'None' in its last cell
FileRowKinds ==
  { Padded(<<>>),
    Padded(<<UnitName \o <<" ">> \o <<"R", "e", "p", "o", "r", "t">>>>),
    Padded(<<MediaTypeName, UnitName>>),
    <<TestConditionName, MediaTypeName, UnitName>> \o [j \in 1..5 |-> <<"N", "P">>],
    [j \in 1..8 |-> <<"N">>],
    [j \in 1..7 |-> <<"N">>] \o <<<<"N", "o", "n", "e">>>> }

\* numbers of blank rows at the top of a file
LeadingBlankRows == {0, max_search_rows - 2, max_search_rows - 1, max_search_rows}

RawFiles ==
  {[j \in 1..k |-> Padded(<<>>)] \o tail :
     k \in LeadingBlankRows,
     tail \in UNION {[1..n -> FileRowKinds] : n \in 0..MaxFileTail}}

\* df_test = pd.read_excel(file_path, header=None, nrows=max_search_rows)
read_excel(file, nrows) ==
  SubSeq(file, 1, IF Len(file) < nrows THEN Len(file) ELSE nrows)

FindHeaderRowOfFile ==
  \E file \in RawFiles :
    /\ call.op = "none"
    /\ call' = [op |-> "find_header_row", file |-> file,
                df_test |-> read_excel(file, max_search_rows)]
    /\ ret' = find_header_row(read_excel(file, max_search_rows))
    /\ UNCHANGED <<shell, columns, processed_data, spec_validator, view, media, unit>>

NextScan == FindHeaderRowOfFile

SpecScan == InitHeader /\ [][NextScan]_vars

\* ------------------------------------------- column-by-column elimination
\* find_best_spec_row, one iteration of its loop per step.  The candidates df
\* are held as the positions their rows have in spec_df: the filter keeps the
\* rows in the order of the sheet and reset_index only renumbers them.

\* matched_rows: the candidates whose cell matches the context on col
MatchedAt(spec_df, df, col, context) ==
  SelectSeq(df, LAMBDA k : cell_matches(spec_df[k][col], context[col]))

\* the filter applied whether or not a row matches
Reduced_Always(df, matched_rows) == matched_rows

\* "Only reduce if we found matches"
Reduced(df, matched_rows) == IF matched_rows # <<>> THEN matched_rows ELSE df

\* the last remaining row
Selected_Last(df) == df[Len(df)]

\* df.iloc[0]
Selected(df) == df[1]

\* the aggregated rows whose context is matched
ContextRows ==
  {[c \in {"Media Type", "Print Mode"} |->
      IF c = "Media Type" THEN mt ELSE pm] :
     mt \in {Plain, Photo, NULL}, pm \in {<<"D">>, <<"S">>}}

InitMatch ==
  /\ shell = NoShell
  /\ columns = {}
  /\ processed_data = <<>>
  /\ spec_validator \in MatcherValidators
  /\ view = "none"
  /\ media = NoTable
  /\ unit = NoTable
  /\ call = Idle
  /\ ret = Idle

\* entry: df = self.spec_df.copy()
FindBestSpecRow ==
  \E row \in ContextRows :
    /\ call.op = "none"
    /\ call' = [op |-> "find_best_spec_row",
                context |-> extract_test_context(spec_validator, row),
                pc |-> "loop", i |-> 1,
                df |-> [k \in 1..Len(spec_validator.spec_df) |-> k],
                applied |-> {}]
    /\ UNCHANGED <<shell, columns, processed_data, spec_validator, view, media, unit, ret>>

\* an iteration that takes one of the two "continue" branches
Continue ==
  /\ call.op = "find_best_spec_row" /\ call.pc = "loop"
  /\ call.i <= Len(PriorityOrder)
  /\ \/ PriorityOrder[call.i] \notin spec_validator.spec_columns
     \/ PriorityOrder[call.i] \notin DOMAIN call.context
  /\ call' = [call EXCEPT !.i = @ + 1]
  /\ UNCHANGED <<shell, columns, processed_data, spec_validator, view, media, unit, ret>>

\* an iteration that filters on the attribute, then tests for the early stop
Filter ==
  /\ call.op = "find_best_spec_row" /\ call.pc = "loop"
  /\ call.i <= Len(PriorityOrder)
  /\ PriorityOrder[call.i] \in spec_validator.spec_columns
  /\ PriorityOrder[call.i] \in DOMAIN call.context
  /\ LET col == PriorityOrder[call.i]
         matched_rows == MatchedAt(spec_validator.spec_df, call.df, col, call.context)
         df == Reduced(call.df, matched_rows)
     IN call' = [call EXCEPT
                   !.df = df,
                   !.applied = IF matched_rows # <<>> THEN @ \cup {col} ELSE @,
                   !.pc = IF Len(df) = 1 THEN "break" ELSE "loop",
                   !.i = IF Len(df) = 1 THEN @ ELSE @ + 1]
  /\ UNCHANGED <<shell, columns, processed_data, spec_validator, view, media, unit, ret>>

\* after the loop: None, or the first remaining row
Return ==
  /\ call.op = "find_best_spec_row" /\ ret.op = "none"
  /\ call.pc = "break" \/ call.i > Len(PriorityOrder)
  /\ ret' = [op |-> "find_best_spec_row",
             index |-> IF call.df = <<>> THEN 0 ELSE Selected(call.df),
             row |-> IF call.df = <<>> THEN None
                     ELSE spec_validator.spec_df[Selected(call.df)]]
  /\ UNCHANGED <<shell, columns, processed_data, spec_validator, view, media, unit, call>>

NextMatch == FindBestSpecRow \/ Continue \/ Filter \/ Return

SpecMatch == InitMatch /\ [][NextMatch]_vars

\* ---- the two views on tables of up to MaxBlockRows records, enough for a
\* combination with two detail rows to be followed by another combination
BlockMeasurements == SubSeq(Measurements, 1, 2)

BlockColumnSets == {c \in ColumnSets : {"Media Type", "Media Name"} \subseteq c}

BlockTables(cols) ==
  {t \in Tables(cols, BlockMeasurements, MaxBlockRows) :
     \A i \in 1..(Len(t) - 1) :
       RowCode(t[i], cols, BlockMeasurements) <= RowCode(t[i + 1], cols, BlockMeasurements)}

InitBlocks ==
  /\ shell = NoShell
  /\ columns \in BlockColumnSets
  /\ processed_data \in BlockTables(columns)
  /\ spec_validator \in {None, SpecFileValidator}
  /\ view = "none"
  /\ media = NoTable
  /\ unit = NoTable
  /\ call = Idle
  /\ ret = Idle

NextBlocks == ByMediaName \/ ByUnit

SpecBlocks == InitBlocks /\ [][NextBlocks]_vars

\* ------------------------------------------------------- the desktop shell
\* PivotGeneratorApp: the Tk event loop (UI thread) and the worker thread that
\* generate_pivots starts.  shell.worker is the worker's position in
\* _generate_pivots_thread, shell.after the callbacks queued with root.after
\* and not yet run, shell.accessed the <<thread, widget or Tk variable>> pairs
\* of the accesses made so far.  Tk is not made for calls from a second
\* thread: a widget call of the worker either completes or raises.
Touch(thread, widgets) ==
  shell.accessed \cup {<<thread, w>> : w \in widgets}

InitShell ==
  /\ shell = NoShell
  /\ columns = {}
  /\ processed_data = <<>>
  /\ spec_validator = None
  /\ view = "none"
  /\ media = NoTable
  /\ unit = NoTable
  /\ call = Idle
  /\ ret = Idle

\* browse_raw_data, on the UI thread: sets the file and logs it
BrowseRawData ==
  /\ shell' = [shell EXCEPT !.accessed = Touch("ui", {"raw_data_file", "log_text"})]
  /\ UNCHANGED <<columns, processed_data, spec_validator, view, media, unit, call, ret>>

\* generate_pivots, on the UI thread: an error box when no usable file is
\* selected, else the button is disabled, the progress bar started and the
\* worker thread started
GeneratePivots ==
  /\ shell.generate_btn = "normal"
  /\ shell.worker \in {"none", "done"}
  /\ \E selected \in BOOLEAN :
       shell' = IF selected
                  THEN [shell EXCEPT
                          !.generate_btn = "disabled",
                          !.progress = "running",
                          !.worker = "update_status",
                          !.accessed = Touch("ui", {"raw_data_file", "generate_btn",
                                                    "progress"})]
                  ELSE [shell EXCEPT
                          !.messagebox = "error",
                          !.accessed = Touch("ui", {"raw_data_file", "messagebox"})]
  /\ UNCHANGED <<columns, processed_data, spec_validator, view, media, unit, call, ret>>

\* the event loop runs the oldest callback queued with root.after
RunAfterCallback ==
  /\ shell.after # <<>>
  /\ LET callback == Head(shell.after)
     IN shell' =
          [shell EXCEPT
             !.after = Tail(@),
             !.messagebox = IF callback = "showinfo" THEN "info"
                            ELSE IF callback = "showerror" THEN "error" ELSE @,
             !.generate_btn = IF callback = "enable_button" THEN "normal" ELSE @,
             !.progress = IF callback = "stop_progress" THEN "stopped" ELSE @,
             !.accessed =
               Touch("ui", {CASE callback = "enable_button" -> "generate_btn"
                              [] callback = "stop_progress" -> "progress"
                              [] OTHER -> "messagebox"})]
  /\ UNCHANGED <<columns, processed_data, spec_validator, view, media, unit, call, ret>>

\* worker: self.update_status("Starting generation...") -- status_label.config
\* and root.update() are called by the worker thread itself
WorkerUpdateStatus ==
  /\ shell.worker = "update_status"
  /\ \E raised \in BOOLEAN :
       shell' = [shell EXCEPT
                   !.worker = IF raised THEN "except" ELSE "log",
                   !.accessed = Touch("worker", {"status_label"})]
  /\ UNCHANGED <<columns, processed_data, spec_validator, view, media, unit, call, ret>>

\* worker: self.log(...) -- log_text.config / insert / see and root.update()
WorkerLog ==
  /\ shell.worker = "log"
  /\ \E raised \in BOOLEAN :
       shell' = [shell EXCEPT
                   !.worker = IF raised THEN "except" ELSE "get_raw_file",
                   !.accessed = Touch("worker", {"log_text"})]
  /\ UNCHANGED <<columns, processed_data, spec_validator, view, media, unit, call, ret>>

\* worker: raw_file = self.raw_data_file.get()
WorkerGetRawFile ==
  /\ shell.worker = "get_raw_file"
  /\ \E raised \in BOOLEAN :
       shell' = [shell EXCEPT
                   !.worker = IF raised THEN "except" ELSE "pipeline",
                   !.accessed = Touch("worker", {"raw_data_file"})]
  /\ UNCHANGED <<columns, processed_data, spec_validator, view, media, unit, call, ret>>

\* worker: the generators of every category and the Excel file, with the
\* update_status and log calls in between; any of it may raise
WorkerPipeline ==
  /\ shell.worker = "pipeline"
  /\ \E raised \in BOOLEAN :
       shell' = [shell EXCEPT
                   !.worker = IF raised THEN "except" ELSE "report",
                   !.accessed = Touch("worker", {"status_label", "log_text",
                                                 "output_folder"})]
  /\ UNCHANGED <<columns, processed_data, spec_validator, view, media, unit, call, ret>>

\* worker: the success log, the status and root.after(0, showinfo)
WorkerReport ==
  /\ shell.worker = "report"
  /\ \E raised \in BOOLEAN :
       shell' = [shell EXCEPT
                   !.worker = IF raised THEN "except" ELSE "finally",
                   !.after = IF raised THEN @ ELSE Append(@, "showinfo"),
                   !.accessed = Touch("worker", {"status_label", "log_text",
                                                 "output_folder"})]
  /\ UNCHANGED <<columns, processed_data, spec_validator, view, media, unit, call, ret>>

\* worker: the except clause -- log, update_status, root.after(0, showerror);
\* a widget call that raises here leaves the clause before root.after
WorkerExcept ==
  /\ shell.worker = "except"
  /\ \E raised \in BOOLEAN :
       shell' = [shell EXCEPT
                   !.worker = "finally",
                   !.after = IF raised THEN @ ELSE Append(@, "showerror"),
                   !.accessed = Touch("worker", {"status_label", "log_text"})]
  /\ UNCHANGED <<columns, processed_data, spec_validator, view, media, unit, call, ret>>

\* worker: the finally clause -- two root.after calls, then the thread ends
WorkerFinally ==
  /\ shell.worker = "finally"
  /\ shell' = [shell EXCEPT
                 !.worker = "done",
                 !.after = @ \o <<"enable_button", "stop_progress">>]
  /\ UNCHANGED <<columns, processed_data, spec_validator, view, media, unit, call, ret>>

NextShell ==
  \/ BrowseRawData
  \/ GeneratePivots
  \/ RunAfterCallback
  \/ WorkerUpdateStatus
  \/ WorkerLog
  \/ WorkerGetRawFile
  \/ WorkerPipeline
  \/ WorkerReport
  \/ WorkerExcept
  \/ WorkerFinally

SpecShell == InitShell /\ [][NextShell]_vars

\* ---- the matcher on sheets with a Product column, for a product the sheet
\* may not list
ProductCells == {NULL, <<"H", "i">>, <<"B", "a", "s", "e">>}

ProductSheetColumns == {"Product", "Media Type"}

ProductSpecRows ==
  {[c \in ProductSheetColumns \cup {"Spec (per K)"} |->
      CASE c = "Product" -> p [] c = "Media Type" -> mt [] OTHER -> limit] :
     p \in ProductCells, mt \in {NULL, Plain},
     limit \in SpecCellsOf("Spec (per K)")}

RECURSIVE ProductSheets(_)
ProductSheets(n) ==
  IF n = 0 THEN {<<>>}
  ELSE LET shorter == ProductSheets(n - 1)
       IN shorter \cup {Append(t, r) : t \in {u \in shorter : Len(u) = n - 1},
                                        r \in ProductSpecRows}

\* the validators load_specs can build for the product 'Hi'
ProductValidators ==
  {[product |-> <<"h", "i">>, sub_assembly |-> <<"a", "d", "f">>,
    spec_columns |-> ProductSheetColumns, spec_df |-> df] :
     df \in ProductSheets(MaxSpecRows) \ {<<>>}}

InitProduct ==
  /\ shell = NoShell
  /\ columns = {}
  /\ processed_data = <<>>
  /\ spec_validator \in ProductValidators
  /\ view = "none"
  /\ media = NoTable
  /\ unit = NoTable
  /\ call = Idle
  /\ ret = Idle

NextProduct == Evaluate \/ FindBestSpecRow \/ Continue \/ Filter \/ Return

SpecProduct == InitProduct /\ [][NextProduct]_vars

\* -------------------------------------------------- prepare_error_columns
\* raw_data is one record here: raw_data.columns the column names in file
\* order (texts), raw_data.record the cells in the same order.  A cell is a
\* number, or NaN for a blank cell or a text that to_numeric coerces.

\* INTERVENTION_CONFIG.error_column_config, two of its list metrics with two
\* members each, in dict order
intervention_error_column_config ==
  << [output_col |-> <<"N", "P">>, is_list |-> TRUE,
      input_spec |-> << <<"N", "P", "_", "T", "o", "p">>,
                        <<"N", "P", "_", "M", "i", "d", "d", "l", "e">> >>],
     [output_col |-> <<"M", "P">>, is_list |-> TRUE,
      input_spec |-> << <<"M", "P", "_", "T", "o", "p">>,
                        <<"M", "M", "P", "_", "T", "o", "p">> >>] >>

\* SOFT_ERROR_CONFIG.error_column_config, two of its single-column metrics
soft_error_error_column_config ==
  << [output_col |-> <<"P", "a", "p", "e", "r", " ", "S", "a", "i", "l", "i", "n", "g">>,
      is_list |-> FALSE,
      input_spec |-> <<"P", "a", "p", "e", "r", " ", "S", "a", "i", "l", "i", "n", "g">>],
     [output_col |-> <<"T", "e", "a", "r", "_", "S", "1">>, is_list |-> FALSE,
      input_spec |-> <<"T", "e", "a", "r", "_", "S", "1">>] >>

ErrorColumnConfigOf(config) ==
  CASE config = "Intervention" -> intervention_error_column_config
    [] config = "Soft Error" -> soft_error_error_column_config

TpagesName == <<"T", "p", "a", "g", "e", "s">>

\* raw_data[col] for a column name that heads one column
ColumnOf(raw_data, col) ==
  raw_data.record[CHOOSE i \in 1..Len(raw_data.columns) : raw_data.columns[i] = col]

\* raw_data[col] is a DataFrame, which pd.to_numeric rejects, when the name
\* heads more than one column
HeadsOneColumn(raw_data, col) ==
  Cardinality({i \in 1..Len(raw_data.columns) : raw_data.columns[i] = col}) = 1

\* pd.to_numeric(..., errors='coerce').fillna(0) on one cell
to_numeric_fillna(x) == IF IsNa(x) THEN Num(0) ELSE x

\* processed_data[name] = value: the column is replaced where it exists and
\* added at the end where it does not
SetColumn(frame, name, value) ==
  IF name \in Range(frame.columns)
    THEN [frame EXCEPT
            !.record = [i \in 1..Len(frame.columns) |->
                          IF frame.columns[i] = name THEN value ELSE frame.record[i]]]
    ELSE [columns |-> Append(frame.columns, name),
          record |-> Append(frame.record, value)]

\* one configured name resolved: itself when it is a column, else the fuzzy
\* match when there is one and it is truthy; <<>> when it is not resolved
Resolved_ExactOnly(raw_columns, col_name) ==
  IF col_name \in Range(raw_columns) THEN <<col_name>> ELSE <<>>

Resolved(raw_columns, col_name) ==
  IF col_name \in Range(raw_columns) THEN <<col_name>>
  ELSE LET matched == find_fuzzy_column_match(raw_columns, col_name)
       IN IF matched.found /\ matched.col # <<>> THEN <<matched.col>> ELSE <<>>

\* available_cols of a list entry, members from position i on
RECURSIVE AvailableCols(_, _, _)
AvailableCols(raw_columns, input_spec, i) ==
  IF i > Len(input_spec) THEN <<>>
  ELSE Resolved(raw_columns, input_spec[i])
         \o AvailableCols(raw_columns, input_spec, i + 1)

\* pd.concat(numeric_cols, axis=1).sum(axis=1) on the record: one term per
\* entry of available_cols
ConcatSum(raw_data, available_cols) ==
  Num(SumSeq([j \in 1..Len(available_cols) |->
                to_numeric_fillna(ColumnOf(raw_data, available_cols[j])).v]))

\* the loop over error_column_config from entry i on
RECURSIVE PrepareFrom(_, _, _, _, _)
PrepareFrom(raw_data, error_column_config, i, processed, output_columns) ==
  IF i > Len(error_column_config)
    THEN [raised |-> FALSE, processed_data |-> processed,
          error_output_columns |-> output_columns]
  ELSE LET output_col == error_column_config[i].output_col
           input_spec == error_column_config[i].input_spec
           available_cols ==
             IF error_column_config[i].is_list
               THEN AvailableCols(raw_data.columns, input_spec, 1)
               ELSE Resolved(raw_data.columns, input_spec)
       IN IF \E j \in 1..Len(available_cols) :
               ~HeadsOneColumn(raw_data, available_cols[j])
            THEN [raised |-> TRUE, processed_data |-> processed,
                  error_output_columns |-> output_columns]
          ELSE LET withMetric ==
                     IF available_cols # <<>>
                       THEN SetColumn(processed, output_col,
                                      ConcatSum(raw_data, available_cols))
                       ELSE processed
                   withTpages ==
                     IF TpagesName \in Range(withMetric.columns)
                       THEN SetColumn(withMetric, TpagesName,
                                      to_numeric_fillna(ColumnOf(withMetric, TpagesName)))
                       ELSE withMetric
               IN PrepareFrom(raw_data, error_column_config, i + 1, withTpages,
                              IF available_cols # <<>>
                                THEN Append(output_columns, output_col)
                                ELSE output_columns)

prepare_error_columns(raw_data, error_column_config) ==
  PrepareFrom(raw_data, error_column_config, 1, raw_data, <<>>)

\* raw column names: configured names, other spellings of them, and others
PrepareColumnNames ==
  { <<"N", "P", "_", "T", "o", "p">>,
    <<"N", "P", "_", "M", "i", "d", "d", "l", "e">>,
    <<"M", "P", "_", "T", "o", "p">>,
    <<"M", "M", "P", "_", "T", "o", "p">>,
    <<"P", "a", "p", "e", "r", " ", "S", "a", "i", "l", "i", "n", "g">>,
    <<"p", "a", "p", "e", "r", "_", "s", "a", "i", "l", "i", "n", "g">>,
    <<"T", "e", "a", "r", "_", "S", "1">>,
    TpagesName }

\* read_excel gives every column a name of its own
PrepareColumnLists ==
  {cols \in UNION {[1..n -> PrepareColumnNames] : n \in 0..MaxColumns} :
     \A i, j \in 1..Len(cols) : cols[i] = cols[j] => i = j}

PrepareCells == {Num(10000), Num(20000), NaN}

\* ---- prepare_error_columns on one record of the columns above
InitPrepare ==
  /\ shell = NoShell
  /\ columns = {}
  /\ processed_data = <<>>
  /\ spec_validator = None
  /\ view = "none"
  /\ media = NoTable
  /\ unit = NoTable
  /\ call = Idle
  /\ ret = Idle

PrepareErrorColumns ==
  \E config \in {"Intervention", "Soft Error"}, cols \in PrepareColumnLists :
    \E record \in [1..Len(cols) -> PrepareCells] :
      /\ call.op = "none"
      /\ call' = [op |-> "prepare_error_columns", config |-> config,
                  raw_data |-> [columns |-> cols, record |-> record]]
      /\ ret' = prepare_error_columns([columns |-> cols, record |-> record],
                                      ErrorColumnConfigOf(config))
      /\ UNCHANGED <<shell, columns, processed_data, spec_validator, view, media, unit>>

NextPrepare == PrepareErrorColumns

SpecPrepare == InitPrepare /\ [][NextPrepare]_vars

\* ------------------------------------------------------ PivotSummaryEngine
\* all_pivots holds the media and unit tables of the category by reference:
\* an assignment to a column of media_df or unit_df is an assignment to the
\* table a later save_full_report writes.

\* astype(str).str.strip().str.lower() on a Result cell
NormalizedResult(result) ==
  CASE result = "PASS" -> "pass"
    [] result = "FAIL" -> "fail"
    [] result = "NO DATA" -> "no data"
    [] result = "NO SPEC FILE" -> "no spec file"
    [] result = "SPEC NOT FOUND" -> "spec not found"
    [] OTHER -> result

\* df["Result"] = df["Result"].astype(str).str.strip().str.lower()
WithNormalizedResult(df) ==
  [df EXCEPT !.rows = [i \in 1..Len(df.rows) |->
                         [df.rows[i] EXCEPT !["Result"] = NormalizedResult(@)]]]

\* (df["Result"] == value).sum()
ResultCount(df, value) ==
  Cardinality({i \in 1..Len(df.rows) : df.rows[i]["Result"] = value})

\* groupby(col): one group per value of the column, rows without one left
\* out; "Fail" for a group with a failed row, else "Pass"
GroupStatuses(df, col) ==
  {<<df.rows[i][col],
     IF \E j \in 1..Len(df.rows) : /\ df.rows[j][col] = df.rows[i][col]
                                   /\ df.rows[j]["Result"] = "fail"
       THEN "Fail" ELSE "Pass">> :
     i \in {k \in 1..Len(df.rows) : df.rows[k][col] # NULL}}

\* analyze_category: the tables as it leaves them, and its result
analyze_category(media_df, unit_df) ==
  LET media_after == IF "Result" \in Range(media_df.columns)
                       THEN WithNormalizedResult(media_df) ELSE media_df
      unit_after == IF "Unit" \in Range(unit_df.columns)
                      THEN WithNormalizedResult(unit_df) ELSE unit_df
      counted == "Result" \in Range(media_df.columns)
      pass_count == IF counted THEN ResultCount(media_after, "pass") ELSE 0
      fail_count == IF counted THEN ResultCount(media_after, "fail") ELSE 0
      total == pass_count + fail_count
  IN [media_df |-> media_after,
      unit_df |-> unit_after,
      result |->
        [total_pass |-> pass_count,
         total_fail |-> fail_count,
         fail_rate |-> IF total > 0
                         THEN Num(100 * RoundHalfEven(fail_count * 10000, total))
                         ELSE Num(0),
         media_summary |-> IF "Media Type" \in Range(media_df.columns)
                             THEN GroupStatuses(media_after, "Media Type") ELSE {},
         unit_summary |-> IF "Unit" \in Range(unit_df.columns)
                            THEN GroupStatuses(unit_after, "Unit") ELSE {}]]

\* ---- the two views of one category, then generate_summary on them
\* generate_summary with the one category in all_pivots; call keeps the
\* tables as they were handed over
GenerateSummary ==
  /\ view = "unit"
  /\ ~media.error /\ ~unit.error
  /\ LET analyzed == analyze_category(media, unit)
     IN /\ media' = analyzed.media_df
        /\ unit' = analyzed.unit_df
        /\ ret' = [categories |-> <<analyzed.result>>,
                   worst_category |-> analyzed.result]
  /\ view' = "summary"
  /\ call' = [op |-> "generate_summary", media |-> media, unit |-> unit]
  /\ UNCHANGED <<shell, columns, processed_data, spec_validator>>

NextSummary == ByMediaName \/ ByUnit \/ GenerateSummary

SpecSummary == Init /\ [][NextSummary]_vars

\* ================================================================= claims
\* the tables the generator has returned so far (a raised call returns none)
Returned ==
  {t \in (IF view \in {"media", "unit"} THEN {media} ELSE {})
           \cup (IF view = "unit" THEN {unit} ELSE {}) : ~t.error}

\* the dimension columns of a returned table, and its terminal one
DimsOf(t) == {c \in Range(t.columns) : c \in columns}
TerminalOf(t) ==
  IF "Unit" \in DimsOf(t) THEN "Unit"
  ELSE IF "Media Name" \in DimsOf(t) THEN "Media Name" ELSE "none"
NonTerminalOf(t) == DimsOf(t) \ {TerminalOf(t)}

IsGrandTotalRow(r) ==
  \E c \in {"Media Name", "Unit"} \cap DOMAIN r : r[c] = GrandTotal

\* positions of the detail rows / grand-total rows of a table
DetailAt(t) == {i \in 1..Len(t.rows) : ~IsGrandTotalRow(t.rows[i])}
TotalAt(t) == {i \in 1..Len(t.rows) : IsGrandTotalRow(t.rows[i])}

\* rows i and j of t agree on every non-terminal dimension (a missing value
\* is a value of its own)
SameCombination(t, i, j) ==
  \A c \in NonTerminalOf(t) : t.rows[i][c] = t.rows[j][c]

\* the detail rows a grand-total row at position g rolls up
SiblingsAt(t, g) == {i \in DetailAt(t) : SameCombination(t, i, g)}

RECURSIVE SumOver(_, _)
SumOver(S, f) ==
  IF S = {} THEN 0
  ELSE LET x == CHOOSE y \in S : TRUE IN f[x] + SumOver(S \ {x}, f)

\* the input records that fall in the group of row r of table t
MembersAt(t, r) ==
  {i \in 1..Len(processed_data) :
     \A c \in DimsOf(t) : processed_data[i][c] = r[c]}

RateColumns == {PerK(m) : m \in Range(error_output_columns)}

\* C1: in both views, a detail row of a group with a positive page count
\* carries, for every metric, round(sum(count) / sum(pages) * 1000, 3) and, as
\* total rate, the sum of these rounded rates; 7 defects on 2000 pages are 3.5.
C1_RateFormula ==
  \A t \in Returned : \A i \in DetailAt(t) :
    LET r == t.rows[i]
        g == MembersAt(t, r)
        pages == SumOver(g, [j \in g |-> processed_data[j]["Tpages"]])
        count(m) == SumOver(g, [j \in g |-> processed_data[j][m]])
        thousandths(m) == RoundHalfEven(count(m) * 1000 * 1000, pages)
    IN pages > 0 =>
         /\ r["Tpages"] = pages
         /\ \A m \in Range(error_output_columns) :
              r[PerK(m)] = Milli(thousandths(m))
         /\ r[total_column_name] =
              Milli(SumOver(Range(error_output_columns),
                            [m \in Range(error_output_columns) |-> thousandths(m)]))
         /\ (pages = 2000 /\ count("NP") = 7 => r["NP/K"] = Milli(3500))

\* a group of two records, 2000 pages and 7 defects in all, rated 3.5
C1_Witness ==
  \E t \in Returned : \E i \in DetailAt(t) :
    /\ Cardinality(MembersAt(t, t.rows[i])) = 2
    /\ t.rows[i]["Tpages"] = 2000
    /\ t.rows[i]["NP/K"] = Milli(3500)

\* the page-weighted mean of a rate column over the siblings of the
\* grand-total row at g, in thousandths; a sibling without pages has no rate
\* and no weight
WeightedThousandths(t, g, col) ==
  LET sib == {i \in SiblingsAt(t, g) : t.rows[i][col].k = "num"}
      pages == SumOver(SiblingsAt(t, g),
                       [i \in SiblingsAt(t, g) |-> t.rows[i]["Tpages"]])
  IN RoundHalfEven(
       SumOver(sib, [i \in sib |-> (t.rows[i][col].v \div 10) * t.rows[i]["Tpages"]]),
       pages)

\* C2: a grand-total row over siblings with a positive page total carries, in
\* every per-metric rate column and in the total-rate column, the
\* page-count-weighted average of the siblings' rounded rates, rounded to 3
\* decimals: siblings (1000 pages, 2.0) and (3000 pages, 6.0) give 5.0.
C2_WeightedAverage ==
  \A t \in Returned : \A g \in TotalAt(t) :
    LET sib == SiblingsAt(t, g)
        pages == SumOver(sib, [i \in sib |-> t.rows[i]["Tpages"]])
    IN pages > 0 =>
         /\ t.rows[g]["Tpages"] = pages
         /\ \A col \in RateColumns \cup {total_column_name} :
              t.rows[g][col] = Milli(WeightedThousandths(t, g, col))
         /\ ( (\E i, j \in sib :
                 /\ sib = {i, j}
                 /\ t.rows[i]["Tpages"] = 1000 /\ t.rows[i]["NP/K"] = Milli(2000)
                 /\ t.rows[j]["Tpages"] = 3000 /\ t.rows[j]["NP/K"] = Milli(6000))
              => t.rows[g]["NP/K"] = Milli(5000) )

\* siblings (1000 pages, 2.0) and (3000 pages, 6.0) under one grand total
C2_Witness ==
  \E t \in Returned : \E g \in TotalAt(t) : \E i, j \in SiblingsAt(t, g) :
    /\ SiblingsAt(t, g) = {i, j}
    /\ t.rows[i]["Tpages"] = 1000 /\ t.rows[i]["NP/K"] = Milli(2000)
    /\ t.rows[j]["Tpages"] = 3000 /\ t.rows[j]["NP/K"] = Milli(6000)
    /\ t.rows[g]["NP/K"] = Milli(5000)

\* the number of grand-total rows of every combination of a table is 1 when
\* the combination has more than one detail row and 0 when it has one
OneTotalPerCombination(t) ==
  /\ \A i \in DetailAt(t) :
       Cardinality({g \in TotalAt(t) : SameCombination(t, i, g)})
         = (IF Cardinality({j \in DetailAt(t) : SameCombination(t, i, j)}) > 1
              THEN 1 ELSE 0)
  /\ \A g \in TotalAt(t) : SiblingsAt(t, g) # {}

\* C3: exactly one grand-total row per combination of non-terminal dimension
\* values with more than one detail row, none for a combination with one;
\* in the by-media view none at all unless Media Name is a grouping column and
\* more than one grouping column is in play.
C3_OneGrandTotalPerCombination ==
  /\ (view \in {"media", "unit"} /\ ~media.error) =>
       IF "Media Name" \in columns /\ Len(GroupbyColsMedia(columns)) > 1
         THEN OneTotalPerCombination(media)
         ELSE TotalAt(media) = {}
  /\ (view = "unit" /\ ~unit.error) => OneTotalPerCombination(unit)

\* C4: the grand-total row of a sibling group of more than one row whose
\* page counts sum to 0 has 0.0 (no NaN, no infinity) in every per-metric rate
\* column and in the total-rate column, whatever NaN or infinite rates the
\* siblings carry, and the call returns its table.
C4_ZeroWeightTotal ==
  \A t \in Returned : \A g \in TotalAt(t) :
    (/\ Cardinality(SiblingsAt(t, g)) > 1
     /\ SumOver(SiblingsAt(t, g),
                [i \in SiblingsAt(t, g) |-> t.rows[i]["Tpages"]]) = 0)
      => \A col \in RateColumns \cup {total_column_name} :
           t.rows[g][col] = Milli(0)

\* a grand total over two page-less siblings, one rate infinite, one NaN
C4_Witness ==
  \E t \in Returned : \E g \in TotalAt(t) :
    /\ t.rows[g]["Tpages"] = 0
    /\ Cardinality(SiblingsAt(t, g)) > 1
    /\ \E i \in SiblingsAt(t, g) :
         t.rows[i]["NP/K"] = PosInf /\ t.rows[i]["MP/K"] = NaN
    /\ t.rows[g]["NP/K"] = Milli(0)
    /\ t.rows[g][total_column_name] = Milli(0)

\* C5: every input record is counted in exactly one detail row of the final
\* table, records with missing dimension values included: the page counts of
\* the detail rows add up to the page counts of the input records.
C5_EveryRecordCounted ==
  \A t \in Returned :
    /\ \A j \in 1..Len(processed_data) :
         Cardinality({i \in DetailAt(t) : j \in MembersAt(t, t.rows[i])}) = 1
    /\ SumOver(DetailAt(t), [i \in DetailAt(t) |-> t.rows[i]["Tpages"]])
         = SumSeq([j \in 1..Len(processed_data) |-> processed_data[j]["Tpages"]])

ActualOf(row) ==
  IF total_column_name \in DOMAIN row THEN row[total_column_name] ELSE None
SurvivorsOf(row) ==
  Candidates(spec_validator, extract_test_context(spec_validator, row))

\* C6: when a specification row is selected and the row's total rate is a
\* number, evaluate returns that row's limit, PASS if and only if the rate is
\* <= the limit and FAIL otherwise, and the rate rounded to 3 decimals (a
\* multiple of 0.001 at most 0.0005 away); a rate equal to the limit is PASS.
C6_EvaluateBoundary ==
  (/\ call.op = "evaluate"
   /\ SurvivorsOf(call.pivot_row) # <<>>
   /\ ActualOf(call.pivot_row).k \in {"num", "inf"}) =>
    LET actual == ActualOf(call.pivot_row)
        limit == SurvivorsOf(call.pivot_row)[1]["Spec (per K)"]
    IN /\ ret[1] = limit
       /\ ret[3] = (IF actual.k = "num" /\ actual.v <= limit.v
                      THEN "PASS" ELSE "FAIL")
       /\ actual = limit => ret[3] = "PASS"
       /\ actual.k = "num" =>
            /\ ret[2].k = "num"
            /\ ret[2].v % 10 = 0
            /\ ret[2].v - actual.v \in -5..5
       /\ actual.k = "inf" => ret[2] = PosInf

\* a rate of exactly 0.58 judged against the limit 0.58
C6_Witness ==
  /\ call.op = "evaluate"
  /\ ActualOf(call.pivot_row) = Milli(580)
  /\ ret = <<Milli(580), Milli(580), "PASS">>

\* C9: evaluate returns (null, the row's own rate, SPEC NOT FOUND) when no
\* specification row survives the matching, and (the matched limit, null,
\* NO DATA) when one survives and the row's total rate is missing or NaN;
\* both cases return.
C9_NotFoundAndNoData ==
  call.op = "evaluate" =>
    LET actual == ActualOf(call.pivot_row)
        survivors == SurvivorsOf(call.pivot_row)
    IN /\ survivors = <<>> => ret = <<None, actual, "SPEC NOT FOUND">>
       /\ (survivors # <<>> /\ IsNa(actual)) =>
            ret = <<survivors[1]["Spec (per K)"], None, "NO DATA">>

\* a Plain row with a NaN rate against the sheet whose first row has limit 0.58
C9_Witness ==
  /\ call.op = "evaluate"
  /\ ActualOf(call.pivot_row) = NaN
  /\ SurvivorsOf(call.pivot_row) # <<>>
  /\ ret = <<Milli(580), None, "NO DATA">>

\* ---- SpecValidator.cell_matches
\* a cell is blank when it is missing or holds nothing but spaces
IsBlankCell(cell) == cell = NULL \/ \A i \in 1..Len(cell) : cell[i] = " "

\* t without its leading and trailing spaces
Trimmed(t) ==
  LET inked == {i \in 1..Len(t) : t[i] # " "}
  IN IF inked = {} THEN <<>>
     ELSE SubSeq(t, CHOOSE i \in inked : \A j \in inked : i <= j,
                    CHOOSE i \in inked : \A j \in inked : i >= j)

\* the comma-separated tokens of a cell: its maximal comma-free stretches,
\* trimmed and lower-cased
TokensOf(cell) ==
  {Lower(Trimmed(SubSeq(cell, i, j))) :
     <<i, j>> \in {p \in (1..(Len(cell) + 1)) \X (0..Len(cell)) :
                     /\ p[1] <= p[2] + 1
                     /\ \A k \in p[1]..p[2] : cell[k] # ","
                     /\ (p[1] = 1 \/ cell[p[1] - 1] = ",")
                     /\ (p[2] = Len(cell) \/ cell[p[2] + 1] = ",")}}

\* C8: cell_matches is true for every context value when the cell is
\* blank, NaN or empty; for any other cell it is true if and only if the
\* context value equals one of the cell's comma-separated tokens after
\* trimming and lower-casing: "plain, brochure" matches "plain" and "brochure"
\* and not "photo".
C8_CellMatches ==
  call.op = "cell_matches" =>
    LET cell == call.spec_cell
        value == call.pivot_value
    IN /\ IsBlankCell(cell) => ret = TRUE
       /\ ~IsBlankCell(cell) => (ret = TRUE <=> value \in TokensOf(cell))
       /\ cell = PlainBrochure =>
            (ret = TRUE <=> value \in {Lower(Plain), Lower(Brochure)})

\* the cell "plain, brochure" asked about "brochure"
C8_Witness ==
  /\ call.op = "cell_matches"
  /\ call.spec_cell = PlainBrochure
  /\ call.pivot_value = Lower(Brochure)
  /\ ret = TRUE

\* ---- threshold mode
\* C7: in the threshold mode every aggregated row and every grand-total row is
\* Pass exactly when its total rate is <= the threshold looked up for its
\* media type and print mode, and Fail otherwise; a rate equal to its
\* threshold is Pass.
C7_ThresholdBoundary ==
  \A t \in Returned : \A i \in 1..Len(t.rows) :
    LET r == t.rows[i]
        threshold == get_spec_for_media_type(r["Media Type"], PrintModeOf(r))
    IN r["Result"] = (IF Leq(r[total_column_name], threshold)
                        THEN "Pass" ELSE "Fail")

\* ---- construction
\* the sheet has a row whose category, trimmed and without regard to case, is
\* the requested one
HasCategoryRow(sheet) ==
  /\ "Spec Category" \in Range(sheet.columns)
  /\ \E i \in 1..Len(sheet.rows) :
       Lower(Trimmed(AsStr(sheet.rows[i]["Spec Category"]))) = Lower(Intervention)

\* C11: a specification sheet without the 'Spec Category' column, or without
\* a row of the requested category, makes the SpecValidator construction raise
\* (and only such a sheet does); the generator's construction completes with
\* no validator, and both views are returned, judged 'NO SPEC FILE'.
C11_LoadFailureKeepsViews ==
  (view # "init" /\ ret.op = "SpecValidator") =>
    /\ ret.raised = ~HasCategoryRow(call.sheet)
    /\ ret.raised =>
         /\ spec_validator = None
         /\ view \in {"media", "unit"} =>
              /\ ~media.error
              /\ \A i \in 1..Len(media.rows) : media.rows[i]["Result"] = "NO SPEC FILE"
         /\ view = "unit" =>
              /\ ~unit.error
              /\ \A i \in 1..Len(unit.rows) : unit.rows[i]["Result"] = "NO SPEC FILE"
    /\ ~ret.raised => spec_validator # None

\* a sheet with the category column and rows of another category only: the
\* load raised and both views were returned with their rows
C11_Witness ==
  /\ view = "unit"
  /\ ret.op = "SpecValidator"
  /\ "Spec Category" \in Range(call.sheet.columns)
  /\ Len(call.sheet.rows) > 0
  /\ ret.raised
  /\ spec_validator = None
  /\ ~media.error /\ Len(media.rows) > 0
  /\ ~unit.error /\ Len(unit.rows) > 0

\* ---- header detection
\* the rows of a sheet (1-based) that hold the three key names as cells
HeaderRowsOf(sheet) ==
  {i \in 1..Len(sheet) :
     {TestConditionName, MediaTypeName, UnitName} \subseteq Range(sheet[i])}

\* C12: when a row of the scanned sheet holds 'Test Condition', 'Media Type'
\* and 'Unit', find_header_row returns the 0-based index of the first such
\* row, whatever blank or title rows (none, one, three, ...) come before it.
C12_HeaderRowFound ==
  (call.op = "find_header_row" /\ HeaderRowsOf(call.df_test) # {}) =>
    ret = (CHOOSE i \in HeaderRowsOf(call.df_test) :
             \A j \in HeaderRowsOf(call.df_test) : i <= j) - 1

\* a blank row and two title rows (one naming two key columns) before the
\* header: the header is found at index 3
C12_Witness ==
  /\ call.op = "find_header_row"
  /\ Len(call.df_test) >= 4
  /\ HeaderRowsOf(call.df_test) \cap (1..4) = {4}
  /\ \E i \in 1..3 : call.df_test[i] = <<NULL, NULL, NULL>>
  /\ \E i \in 1..3 : RowScore(call.df_test[i]) = 2
  /\ ret = 3

\* ---- normalisation
\* the canonical names of a generator, and the spellings it renames
CanonicalNames(generator) ==
  LET aliases == IF generator = "core" THEN COLUMN_ALIASES ELSE legacy_COLUMN_ALIASES
  IN {aliases[i][1] : i \in 1..Len(aliases)}
Spellings(generator) ==
  LET aliases == IF generator = "core" THEN COLUMN_ALIASES ELSE legacy_COLUMN_ALIASES
  IN UNION {Range(aliases[i][2]) : i \in 1..Len(aliases)}

\* no column carries a spelling other than a canonical name
IsCanonicalTable(generator, df_columns) ==
  \A i \in 1..Len(df_columns) :
    df_columns[i] \in Spellings(generator) => df_columns[i] \in CanonicalNames(generator)

\* C13: normalising a table whose columns carry only canonical names returns
\* the same column names in the same order and the same data, and normalising
\* the result again changes nothing.
C13_CanonicalNoOp ==
  (/\ call.op = "standardize_column_names"
   /\ IsCanonicalTable(call.generator, call.df_columns)) =>
    /\ ret.df_columns = call.df_columns
    /\ ret.data = call.data
    /\ (IF call.generator = "core"
          THEN standardize_column_names(ret.df_columns, COLUMN_ALIASES)
          ELSE legacy_standardize_column_names(ret.df_columns)) = ret.df_columns

\* the core normalisation of a table that already has Test Condition, Input
\* Tray and Unit
C13_Witness ==
  /\ call.op = "standardize_column_names"
  /\ call.generator = "core"
  /\ call.df_columns = <<"Test Condition", "Input Tray", "Unit">>
  /\ ret.df_columns = <<"Test Condition", "Input Tray", "Unit">>

\* ---- fuzzy matching
\* C14: when a column's normalised name (lower-cased, '_' and '-' turned into
\* spaces, trimmed) equals the normalised target, find_fuzzy_column_match
\* returns a column with that normalised name; and for a target of 5 or fewer
\* normalised characters a column is returned only on normalised equality.
C14_FuzzyMatch ==
  call.op = "find_fuzzy_column_match" =>
    LET target == Normalized(call.target_col)
        equal == {i \in 1..Len(call.df_columns) :
                    Normalized(call.df_columns[i]) = target}
    IN /\ equal # {} => (ret.found /\ Normalized(ret.col) = target)
       /\ (Len(target) <= 5 /\ ret.found) => Normalized(ret.col) = target

\* ---- absent dimension columns
\* C15: whichever dimension columns the table lacks, both views return a
\* table (no call raises), grouped by the dimension columns that are present:
\* the media view by all of them but Unit, the unit view by all of them but
\* Media Name.
C15_AbsentColumnsTolerated ==
  /\ view \in {"media", "unit"} =>
       /\ ~media.error
       /\ {c \in Range(media.columns) : c \in Range(all_potential_groupby)}
            = columns \ {"Unit"}
  /\ view = "unit" =>
       /\ ~unit.error
       /\ {c \in Range(unit.columns) : c \in Range(all_potential_groupby)}
            = columns \ {"Media Name"}

\* ---- zero page counts
\* C16: the zero-page policy is the same for detail rows and grand-total
\* rows: every returned row whose page count is 0, detail or grand total,
\* carries 0.0 in every per-metric rate column and in the total-rate column.
C16_ZeroPagePolicy ==
  \A t \in Returned : \A i \in 1..Len(t.rows) :
    t.rows[i]["Tpages"] = 0 =>
      \A col \in RateColumns \cup {total_column_name} : t.rows[i][col] = Milli(0)

\* ---- grouping key
\* the dimension columns in the order of the grouping key, the terminal one
\* last
KeyOrder(terminal) ==
  <<"Test Condition", "Test mode", "Media Cat", "Input Tray", "Media Type",
    "Print Mode">> \o additional_groupby_cols \o <<terminal>>

\* the grouping-key columns of a returned table, in the table's order
KeyColumnsOf(t) ==
  SelectSeq(t.columns, LAMBDA c : c \in Range(KeyOrder("Media Name")) \cup {"Unit", "Input_Tray"})

\* the number of different values the records take on the columns cols
DistinctKeys(cols) == Cardinality({KeyOf(processed_data[i], cols) : i \in 1..Len(processed_data)})

\* C17: the grouping key of each view is the sub-list of [Test Condition,
\* Test mode, Media Cat, Input Tray, Media Type, Print Mode, extra columns,
\* terminal dimension] present in the normalised data, in this order; with an
\* input-tray column under any accepted spelling, input tray is in the key, so
\* records that differ only in input tray are in different aggregated rows.
C17_GroupingKey ==
  /\ (view \in {"media", "unit"} /\ ~media.error) =>
       /\ KeyColumnsOf(media) = Present(KeyOrder("Media Name"), columns)
       /\ Cardinality(DetailAt(media))
            = DistinctKeys(Present(KeyOrder("Media Name"), columns))
  /\ (view = "unit" /\ ~unit.error) =>
       /\ KeyColumnsOf(unit) = Present(KeyOrder("Unit"), columns)
       /\ Cardinality(DetailAt(unit))
            = DistinctKeys(Present(KeyOrder("Unit"), columns))

\* ---- column-by-column elimination
\* the candidates before a step of find_best_spec_row
CandidatesBefore ==
  IF call.op = "find_best_spec_row" THEN call.df
  ELSE [k \in 1..Len(spec_validator.spec_df) |-> k]

\* C18: in find_best_spec_row a filter step is applied only when at least one
\* candidate matches on the attribute and is skipped otherwise; the candidate
\* set only shrinks and is never emptied, every surviving candidate matches
\* the context on every attribute whose filter was applied, and the applied
\* attributes only grow.
C18_Elimination ==
  [][call'.op = "find_best_spec_row" =>
       /\ Range(call'.df) \subseteq Range(CandidatesBefore)
       /\ call'.df # <<>>
       /\ \A k \in Range(call'.df) : \A col \in call'.applied :
            cell_matches(spec_validator.spec_df[k][col], call'.context[col])
       /\ (call.op = "find_best_spec_row" /\ call'.df # call.df) =>
            /\ call.pc = "loop"
            /\ call'.applied = call.applied \cup {PriorityOrder[call.i]}
            /\ call'.df = MatchedAt(spec_validator.spec_df, call.df,
                                    PriorityOrder[call.i], call.context)
       /\ (call.op = "find_best_spec_row" /\ call'.df = call.df) =>
            call.applied \subseteq call'.applied
       /\ (/\ call.op = "find_best_spec_row" /\ call.pc = "loop"
           /\ call.i <= Len(PriorityOrder) /\ call' # call
           /\ PriorityOrder[call.i] \in spec_validator.spec_columns
           /\ PriorityOrder[call.i] \in DOMAIN call.context
           /\ MatchedAt(spec_validator.spec_df, call.df,
                        PriorityOrder[call.i], call.context) = <<>>) =>
            /\ call'.df = call.df
            /\ call'.applied = call.applied]_vars

\* a filter on Print Mode was skipped for lack of a match, then the filter on
\* Media Type was applied and removed a candidate
C18_Witness ==
  /\ call.op = "find_best_spec_row"
  /\ "Print Mode" \in DOMAIN call.context
  /\ call.applied = {"Media Type"}
  /\ Len(call.df) < Len(spec_validator.spec_df)

\* the candidates left when every attribute of the priority list is run from
\* attribute i on, without the early stop
RECURSIVE WholeList(_, _, _, _, _)
WholeList(spec_df, df, spec_columns, context, i) ==
  IF i > Len(PriorityOrder) THEN df
  ELSE LET col == PriorityOrder[i]
       IN IF col \notin spec_columns \/ col \notin DOMAIN context
            THEN WholeList(spec_df, df, spec_columns, context, i + 1)
            ELSE LET matched_rows == MatchedAt(spec_df, df, col, context)
                 IN WholeList(spec_df,
                              IF matched_rows # <<>> THEN matched_rows ELSE df,
                              spec_columns, context, i + 1)

\* C19: find_best_spec_row returns the remaining candidate that comes first in
\* the order of the specification sheet (the candidates stay in sheet order),
\* and it is the row that running the whole priority list without the early
\* stop would return.
C19_FirstRemaining ==
  ret.op = "find_best_spec_row" =>
    /\ \A a, b \in 1..Len(call.df) : a < b => call.df[a] < call.df[b]
    /\ call.df # <<>>
    /\ \A k \in Range(call.df) : ret.index <= k
    /\ ret.index \in Range(call.df)
    /\ ret.row = spec_validator.spec_df[ret.index]
    /\ ret.index = WholeList(spec_validator.spec_df,
                             [k \in 1..Len(spec_validator.spec_df) |-> k],
                             spec_validator.spec_columns, call.context, 1)[1]
    /\ ret.row = find_best_spec_row(spec_validator, call.context)

\* the loop stopped early on a candidate that is not the first row of the
\* sheet and that does not match the context on a later attribute
C19_Witness ==
  /\ ret.op = "find_best_spec_row"
  /\ call.pc = "break"
  /\ ret.index > 1
  /\ \E j \in (call.i + 1)..Len(PriorityOrder) :
       /\ PriorityOrder[j] \in spec_validator.spec_columns
       /\ PriorityOrder[j] \in DOMAIN call.context
       /\ ~cell_matches(ret.row[PriorityOrder[j]], call.context[PriorityOrder[j]])

\* ---- verdict of the grand-total rows
\* the dimension values and the total rate of row i of t, nothing else
OwnValues(t, i) ==
  [c \in DimsOf(t) \cup {total_column_name} |-> t.rows[i][c]]

\* C20: with a specification file, the Spec Limit and Result of a grand-total
\* row are what SpecValidator.evaluate gives for the row's own dimension
\* values and own total rate: a function of that row alone, not the Result of
\* a row it totals.
C20_GrandTotalEvaluated ==
  spec_validator # None =>
    \A t \in Returned : \A i \in TotalAt(t) :
      LET e == evaluate(spec_validator, OwnValues(t, i), total_column_name)
      IN /\ t.rows[i]["Spec Limit"] = e[1]
         /\ t.rows[i]["Result"] = e[3]

\* a grand-total row whose Result is the Result of none of the rows it totals
C20_Witness ==
  /\ spec_validator # None
  /\ \E t \in Returned : \E i \in TotalAt(t) :
       /\ SiblingsAt(t, i) # {}
       /\ \A j \in SiblingsAt(t, i) : t.rows[j]["Result"] # t.rows[i]["Result"]

\* ---- placement of the grand-total rows
\* C21: in a table returned through add_grand_totals the detail rows of each
\* combination of non-terminal dimension values are one contiguous block; a
\* grand-total row comes immediately after the last row of its block, wherever
\* the block is in the table; it carries 'Grand Total' in the terminal
\* dimension cell and the block's shared value in every other dimension cell.
C21_GrandTotalPlacement ==
  \A t \in Returned :
    /\ \A i, k \in DetailAt(t) : (i < k /\ SameCombination(t, i, k)) =>
         \A j \in i..k : j \in DetailAt(t) /\ SameCombination(t, i, j)
    /\ \A g \in TotalAt(t) :
         /\ g > 1
         /\ (g - 1) \in DetailAt(t)
         /\ SiblingsAt(t, g) # {}
         /\ \A j \in SiblingsAt(t, g) : j < g
         /\ (g - 1) \in SiblingsAt(t, g)
         /\ t.rows[g][TerminalOf(t)] = GrandTotal
         /\ \A c \in NonTerminalOf(t) : t.rows[g][c] = t.rows[g - 1][c]

\* a grand-total row follows its two detail rows and is followed by the rows
\* of another combination
C21_Witness ==
  \E t \in Returned : \E g \in TotalAt(t) :
    /\ Cardinality(SiblingsAt(t, g)) = 2
    /\ g < Len(t.rows)
    /\ (g + 1) \in DetailAt(t)

\* ---- header detection, all three methods
\* the 0-based indices of the rows find_header_row scans
ScannedOf(file) == {i \in 0..(Len(file) - 1) : i < 20}

\* how many of 'test condition', 'media type', 'unit' are found, ignoring
\* case, in some cell of the row
KeyNamesIn(row) ==
  Cardinality({name \in {Lower(TestConditionName), Lower(MediaTypeName), Lower(UnitName)} :
                 \E j \in 1..Len(row) : IsSubstring(name, Lower(Strip(AsStr(row[j]))))})

\* how many cells of the row are non-empty and not 'nan' / 'none'
FilledCells(row) ==
  Cardinality({j \in 1..Len(row) :
                 /\ Strip(AsStr(row[j])) # <<>>
                 /\ Lower(AsStr(row[j])) # <<"n", "a", "n">>
                 /\ Lower(AsStr(row[j])) # <<"n", "o", "n", "e">>})

\* C22: find_header_row scans at most the first 20 rows; it returns the first
\* row whose score is the maximum score when that maximum is at least 2;
\* otherwise the first scanned row with at least 8 cells that are non-empty
\* and not 'nan' / 'none'; otherwise row index 1.
C22_HeaderRowMethods ==
  call.op = "find_header_row" =>
    LET file == call.file
        scanned == ScannedOf(file)
        score(i) == KeyNamesIn(file[i + 1])
        scored == {i \in scanned : score(i) >= 2 /\ \A j \in scanned : score(j) <= score(i)}
        filled == {i \in scanned : FilledCells(file[i + 1]) >= 8}
    IN IF scored # {} THEN ret \in scored /\ \A j \in scored : ret <= j
       ELSE IF filled # {} THEN ret \in filled /\ \A j \in filled : ret <= j
       ELSE ret = 1

\* no scanned row names two key columns (the header is the 21st row of the
\* file), a record with 'None' in a cell is passed over and the first row
\* with eight filled cells is returned
C22_Witness ==
  /\ call.op = "find_header_row"
  /\ Len(call.file) > 20
  /\ KeyNamesIn(call.file[21]) = 3
  /\ \A i \in ScannedOf(call.file) : KeyNamesIn(call.file[i + 1]) < 2
  /\ ret = 19
  /\ FilledCells(call.file[19]) = 7

\* ---- two spellings of one canonical name
\* the accepted spellings of the canonical name, in the order of the list
AliasesOf(generator, name) ==
  LET aliases == IF generator = "core" THEN COLUMN_ALIASES ELSE legacy_COLUMN_ALIASES
  IN aliases[CHOOSE e \in 1..Len(aliases) : aliases[e][1] = name][2]

\* C23: for each canonical name the normalisation renames at most one column
\* to it, the one carrying the first spelling of the list present in the
\* table, and the result has no two columns with the same canonical name.
C23_OneColumnPerCanonicalName ==
  call.op = "standardize_column_names" =>
    \A name \in CanonicalNames(call.generator) :
      LET spellings == AliasesOf(call.generator, name)
          present == {k \in 1..Len(spellings) : spellings[k] \in Range(call.df_columns)}
          renamed == {i \in 1..Len(call.df_columns) :
                        ret.df_columns[i] = name /\ call.df_columns[i] # name}
      IN /\ Cardinality(renamed) <= 1
         /\ \A i \in renamed : \A k \in present :
              \E m \in present : m <= k /\ spellings[m] = call.df_columns[i]
         /\ Cardinality({i \in 1..Len(ret.df_columns) : ret.df_columns[i] = name}) <= 1

\* ---- total rate and per-metric rates of one row
\* C29: in every row of a returned table, grand-total rows included, whose
\* per-metric rates are numbers, the total-rate column equals the sum of the
\* row's per-metric rate columns (rates in thousandths, so the sum needs no
\* further rounding).
C29_TotalIsSumOfRates ==
  \A t \in Returned : \A i \in 1..Len(t.rows) :
    (\A col \in RateColumns : t.rows[i][col].k = "num") =>
      /\ t.rows[i][total_column_name].k = "num"
      /\ t.rows[i][total_column_name].v =
           SumOver(RateColumns, [col \in RateColumns |-> t.rows[i][col].v])

\* ---- threshold lookup
\* the positions of the key in a sequence of <<key, value>> pairs
KeyAt(pairs, key) == {i \in 1..Len(pairs) : pairs[i][1] = key}

\* C25: get_spec_for_media_type is a flat two-level lookup: 5 for a media type
\* not in the thresholds; the scalar itself when the media type maps to a
\* scalar, whatever the print mode; for a per-print-mode mapping the entry of
\* the print mode, or 5 when the print mode is missing or not a key.
C25_ThresholdLookup ==
  call.op = "get_spec_for_media_type" =>
    LET specs == ThresholdSpecsOf(call.config)
        at == KeyAt(specs, call.media_type)
    IN IF at = {} THEN ret = Milli(5000)
       ELSE LET value == specs[CHOOSE i \in at : TRUE][2]
            IN IF value.k # "dict" THEN ret = value
               ELSE IF call.print_mode = NULL \/ KeyAt(value.v, call.print_mode) = {}
                 THEN ret = Milli(5000)
                 ELSE ret = value.v[CHOOSE i \in KeyAt(value.v, call.print_mode) : TRUE][2]

\* Soft Error, Plain, Duplex: the entry 10 of the per-print-mode mapping
C25_Witness ==
  /\ call.op = "get_spec_for_media_type"
  /\ call.config = "Soft Error"
  /\ call.media_type = Plain
  /\ call.print_mode = Duplex
  /\ ret = Milli(10000)

\* ---- the worker thread of the desktop shell
\* C26: while the pipeline runs on the worker thread, the worker reports back
\* only through root.after: no widget and no other UI state is read or
\* modified by code running on the worker thread, in any interleaving with
\* the event loop.
C26_WorkerOffTheWidgets ==
  \A a \in shell.accessed : a[1] = "ui"

\* ---- a constructed validator always finds a row
\* C27: for a validator that was constructed, the candidates of
\* find_best_spec_row are not empty before or after any narrowing step, so it
\* never returns None and evaluate never returns 'SPEC NOT FOUND': a row whose
\* context matches no specification row on an attribute (an unknown Product)
\* still gets a limit and PASS, FAIL or NO DATA.
C27_NeverSpecNotFound ==
  /\ call.op = "find_best_spec_row" =>
       /\ call.df # <<>>
       /\ ret.op = "find_best_spec_row" => ret.row # None
  /\ call.op = "evaluate" =>
       /\ ret[3] \in {"PASS", "FAIL", "NO DATA"}
       /\ ret[1] \in {r["Spec (per K)"] : r \in Range(spec_validator.spec_df)}

\* no row of the sheet lists the product 'hi', and the row is judged
C27_Witness ==
  /\ call.op = "evaluate"
  /\ \A r \in Range(spec_validator.spec_df) : ~cell_matches(r["Product"], <<"h", "i">>)
  /\ ret[3] \in {"PASS", "FAIL"}

\* ---- the metrics prepare_error_columns returns
\* a configured name and a raw column go together: the same name, the same
\* normalised name, or, for a normalised name of more than five characters,
\* one normalised name inside the other
GoTogether(name, col) ==
  \/ name = col
  \/ Normalized(name) = Normalized(col)
  \/ /\ Len(Normalized(name)) > 5
     /\ \/ IsSubstring(Normalized(name), Normalized(col))
        \/ IsSubstring(Normalized(col), Normalized(name))

MembersOf(entry) ==
  IF entry.is_list THEN Range(entry.input_spec) ELSE {entry.input_spec}

HasSource(entry, raw_columns) ==
  \E name \in MembersOf(entry), col \in Range(raw_columns) : GoTogether(name, col)

\* C24: prepare_error_columns does not raise, and the list it returns holds,
\* in the order of the metric map and once each, exactly the output metrics
\* with at least one source column resolved by exact name or fuzzy match; a
\* metric with no resolved source column is not in the list.
C24_ErrorOutputColumns ==
  call.op = "prepare_error_columns" =>
    LET config == ErrorColumnConfigOf(call.config)
        Kept(entry) == HasSource(entry, call.raw_data.columns)
        kept == SelectSeq(config, Kept)
    IN /\ ~ret.raised
       /\ ret.error_output_columns = [i \in 1..Len(kept) |-> kept[i].output_col]

\* one metric is dropped and the other is kept through a fuzzy match only
C24_Witness ==
  /\ call.op = "prepare_error_columns"
  /\ Len(ret.error_output_columns) = 1
  /\ \E i \in 1..2 :
       LET entry == ErrorColumnConfigOf(call.config)[i]
       IN /\ ret.error_output_columns = <<entry.output_col>>
          /\ MembersOf(entry) \cap Range(call.raw_data.columns) = {}

\* ---- the sum of a list metric
\* C28: for a metric configured from a list, the prepared value of the record
\* is the sum of its coerced values over the distinct raw columns resolved
\* for the list -- each raw column once, also when two members of the list
\* resolve to the same raw column.
C28_EachColumnOnce ==
  call.op = "prepare_error_columns" =>
    \A i \in 1..Len(ErrorColumnConfigOf(call.config)) :
      LET entry == ErrorColumnConfigOf(call.config)[i]
          resolved == Range(AvailableCols(call.raw_data.columns, entry.input_spec, 1))
          coerced == [col \in resolved |->
                        to_numeric_fillna(ColumnOf(call.raw_data, col)).v]
      IN (entry.is_list /\ resolved # {}) =>
           ColumnOf(ret.processed_data, entry.output_col) = Num(SumOver(resolved, coerced))

\* ---- the tables after generate_summary
\* C30: generate_summary leaves the pivot tables it is given as they were:
\* after it returns, every cell of the media and unit tables, the Result
\* column included, is what it was before the call.
C30_SummaryReadsOnly ==
  call.op = "generate_summary" => (media = call.media /\ unit = call.unit)

====
